---- MODULE Spec2Model ----
(***************************************************************************)
(* A model of the data-format conversion engine of hylaean_splat:          *)
(*   src/src/formats/mod.rs           format model, detect/parse           *)
(*   src/src/formats/point_cloud.rs   PointCloudConverter                  *)
(*   src/src/formats/camera_params.rs CameraParamsConverter                *)
(*   src/src/core/data_manager.rs     DataManager::convert_file            *)
(*                                                                         *)
(* Text is modelled at the level the code inspects it.  A line is a        *)
(* sequence of atoms; an atom is either a whitespace character (" " or     *)
(* "\t") or an indivisible run of non-whitespace characters ("element",    *)
(* "1", "end_header").  A file is the sequence of lines BufRead::lines     *)
(* yields.  The file system maps a path to what is stored there.           *)
(***************************************************************************)
EXTENDS Integers, Sequences, FiniteSets, TLC

VARIABLES fs,    \* the file system: path -> stored object
          pre,   \* the file system as it was when the last call started
          hist   \* the calls made so far, oldest first, each with its outcome

vars == <<fs, pre, hist>>

(***************************************************************************)
(* Bounds of the model.                                                    *)
(***************************************************************************)
MaxLines == 4        \* longest point-cloud input file, in lines
MaxSniffLines == 6   \* longest .txt file handed to format detection
MaxImageLines == 2   \* longest images.txt of a COLMAP directory, in lines
MaxFrames == 3       \* most frames of a NeRF transforms file
MaxCount == 6        \* where the count of an iterator that never ends stops being told apart

(***************************************************************************)
(* Strings: atoms, lines, and the std operations the code applies.         *)
(***************************************************************************)
Whitespace == {" ", "\t"}

\* An atom standing for a line whose bytes are not valid UTF-8: reading it
\* makes the `line?` of a loop return the I/O error.
InvalidUtf8 == "<invalid-utf8>"

IsReadError(line) == Len(line) > 0 /\ line[1] = InvalidUtf8

\* str::trim().is_empty()
trim_is_empty(line) == \A i \in 1..Len(line) : line[i] \in Whitespace

\* str::starts_with(prefix)
starts_with(line, prefix) ==
    /\ Len(line) >= Len(prefix)
    /\ SubSeq(line, 1, Len(prefix)) = prefix

\* str::contains(pat)
contains(line, pat) ==
    \E i \in 0..(Len(line) - Len(pat)) : SubSeq(line, i + 1, i + Len(pat)) = pat

\* str::split_whitespace().collect(): the maximal runs of non-whitespace atoms
RECURSIVE split_whitespace_from(_, _, _, _)
split_whitespace_from(line, i, cur, acc) ==
    IF i > Len(line)
    THEN IF cur = <<>> THEN acc ELSE Append(acc, cur)
    ELSE IF line[i] \in Whitespace
         THEN split_whitespace_from(line, i + 1, <<>>,
                                    IF cur = <<>> THEN acc ELSE Append(acc, cur))
         ELSE split_whitespace_from(line, i + 1, Append(cur, line[i]), acc)

split_whitespace(line) == split_whitespace_from(line, 1, <<>>, <<>>)

Digits == <<"0", "1", "2", "3", "4", "5", "6", "7", "8", "9">>

IsDigit(a) == \E d \in 1..10 : Digits[d] = a

DigitValue(a) == (CHOOSE d \in 1..10 : Digits[d] = a) - 1

\* str::parse::<usize>().ok(): a token of decimal digits, else None
RECURSIVE decimal_value(_, _, _)
decimal_value(tok, i, acc) ==
    IF i > Len(tok) THEN acc
    ELSE decimal_value(tok, i + 1, acc * 10 + DigitValue(tok[i]))

parse_usize(tok) ==
    IF Len(tok) > 0 /\ \A i \in 1..Len(tok) : IsDigit(tok[i])
    THEN [some |-> TRUE, value |-> decimal_value(tok, 1, 0)]
    ELSE [some |-> FALSE, value |-> 0]

\* `{}` of a usize: its decimal digits
RECURSIVE fmt_usize(_)
fmt_usize(n) ==
    IF n < 10 THEN <<Digits[n + 1]>>
    ELSE Append(fmt_usize(n \div 10), Digits[(n % 10) + 1])

\* Iterator::nth(k) of split_whitespace, then parse, then unwrap_or(0)
nth_usize_or_0(line, k) ==
    LET parts == split_whitespace(line)
    IN  IF Len(parts) > k /\ parse_usize(parts[k + 1]).some
        THEN parse_usize(parts[k + 1]).value
        ELSE 0

(***************************************************************************)
(* Numbers.  An f64 is a fraction num/den in lowest terms with den > 0,    *)
(* and arithmetic on it is exact: the rounding of the machine operations   *)
(* is left out.  den = 0 stands for the results of a division by zero:     *)
(* 1/0 (inf), -1/0 (-inf) and 0/0 (NaN).                                   *)
(***************************************************************************)
Abs(n) == IF n < 0 THEN -n ELSE n

RECURSIVE Gcd(_, _)
Gcd(a, b) == IF b = 0 THEN a ELSE Gcd(b, a % b)

Sign(n) == IF n > 0 THEN 1 ELSE IF n < 0 THEN -1 ELSE 0

Rat(n, d) ==
    IF d = 0 THEN [num |-> Sign(n), den |-> 0]
    ELSE LET g == Gcd(Abs(n), Abs(d))
         IN  [num |-> Sign(d) * (n \div g), den |-> Abs(d) \div g]

F(n) == Rat(n, 1)

RAdd(a, b) == Rat(a.num * b.den + b.num * a.den, a.den * b.den)
RSub(a, b) == Rat(a.num * b.den - b.num * a.den, a.den * b.den)
RMul(a, b) == Rat(a.num * b.num, a.den * b.den)
RDiv(a, b) == Rat(a.num * b.den, a.den * b.num)
RPositive(a) == a.num > 0

ISqrt(n) == CHOOSE r \in 0..n : r * r <= n /\ (r + 1) * (r + 1) > n

\* f64::sqrt of a >= 0: exact when a is the square of a fraction (as it is
\* for every matrix the specifications read), rounded down to a multiple of
\* 1/den otherwise
RSqrt(a) == Rat(ISqrt(a.num * a.den), a.den)

RECURSIVE Pow10(_)
Pow10(k) == IF k = 0 THEN 1 ELSE 10 * Pow10(k - 1)

\* str::parse::<u32>(): decimal digits (the value kept below 2^32)
parse_u32(tok) ==
    IF /\ Len(tok) \in 1..9
       /\ \A i \in 1..Len(tok) : IsDigit(tok[i])
    THEN [some |-> TRUE, value |-> decimal_value(tok, 1, 0)]
    ELSE [some |-> FALSE, value |-> 0]

\* str::parse::<f64>(): an optional sign, digits, an optional point, digits,
\* with at least one digit.  (Exponents and the words inf/nan are not
\* spelled by any atom of the files read here.)
parse_f64(tok) ==
    LET signed == Len(tok) > 0 /\ tok[1] \in {"-", "+"}
        body == IF signed THEN Tail(tok) ELSE tok
        dots == {i \in 1..Len(body) : body[i] = "."}
        p == IF dots = {} THEN Len(body) + 1 ELSE CHOOSE i \in dots : TRUE
        int_part == SubSeq(body, 1, p - 1)
        frac_part == SubSeq(body, p + 1, Len(body))
        digits == int_part \o frac_part
        valid == /\ Cardinality(dots) <= 1
                 /\ Len(digits) >= 1
                 /\ \A i \in 1..Len(digits) : IsDigit(digits[i])
        magnitude == decimal_value(digits, 1, 0)
    IN  IF valid
        THEN [some |-> TRUE,
              value |-> Rat(IF signed /\ tok[1] = "-" THEN -magnitude ELSE magnitude,
                            Pow10(Len(frac_part)))]
        ELSE [some |-> FALSE, value |-> F(0)]

\* The digits after the point of rem/den (rem < den), at most k of them
RECURSIVE fraction_digits(_, _, _)
fraction_digits(rem, den, k) ==
    IF rem = 0 \/ k = 0 THEN <<>>
    ELSE <<Digits[((rem * 10) \div den) + 1]>>
         \o fraction_digits((rem * 10) % den, den, k - 1)

\* `{}` of an f64 (Display): no point for a whole number
fmt_f64(x) ==
    IF x.den = 0
    THEN (IF x.num = 0 THEN <<"NaN">> ELSE IF x.num > 0 THEN <<"inf">> ELSE <<"-inf">>)
    ELSE (IF x.num < 0 THEN <<"-">> ELSE <<>>)
         \o fmt_usize(Abs(x.num) \div x.den)
         \o (IF Abs(x.num) % x.den = 0 THEN <<>>
             ELSE <<".">> \o fraction_digits(Abs(x.num) % x.den, x.den, 17))

\* serde_json's rendering of an f64: always a point, null when not finite.
\* camera_angle_x is kept as the expression 2*atan(arg) it is computed by.
json_f64(x) ==
    IF "two_atan_of" \in DOMAIN x
    THEN (IF x.two_atan_of.den = 0 /\ x.two_atan_of.num = 0 THEN <<"null">>
          ELSE <<"2*atan(">> \o fmt_f64(x.two_atan_of) \o <<")">>)
    ELSE IF x.den = 0 THEN <<"null">>
    ELSE (IF x.num < 0 THEN <<"-">> ELSE <<>>)
         \o fmt_usize(Abs(x.num) \div x.den)
         \o <<".">>
         \o (IF Abs(x.num) % x.den = 0 THEN <<"0">>
             ELSE fraction_digits(Abs(x.num) % x.den, x.den, 17))

\* Tokens written with one space between them
RECURSIVE JoinTokens(_)
JoinTokens(tokens) ==
    IF tokens = <<>> THEN <<>>
    ELSE IF Len(tokens) = 1 THEN tokens[1]
    ELSE tokens[1] \o <<" ">> \o JoinTokens(Tail(tokens))

\* A line of one-atom words
Words(ws) == JoinTokens([i \in 1..Len(ws) |-> <<ws[i]>>])

RECURSIVE Flatten(_)
Flatten(seqs) == IF seqs = <<>> THEN <<>> ELSE seqs[1] \o Flatten(Tail(seqs))

(***************************************************************************)
(* serde_json::to_string_pretty of a NeRFCamera, as the lines of the file  *)
(* it makes (two spaces per level, one array element per line).            *)
(***************************************************************************)
Indent(n) == [i \in 1..n |-> " "]

Comma(more) == IF more THEN <<",">> ELSE <<>>

json_string(str) == <<"\"">> \o str \o <<"\"">>

\* One row of transform_matrix, at indentation n
json_row(row, n, more) ==
    << Indent(n) \o <<"[">> >>
    \o [j \in 1..Len(row) |->
            Indent(n + 2) \o json_f64(row[j]) \o Comma(j < Len(row))]
    \o << Indent(n) \o <<"]">> \o Comma(more) >>

json_frame(frame, more) ==
    << Indent(4) \o <<"{">>,
       Indent(6) \o <<"\"file_path\":", " ">> \o json_string(frame.file_path) \o <<",">>,
       Indent(6) \o <<"\"rotation\":", " ">> \o json_f64(frame.rotation) \o <<",">>,
       Indent(6) \o <<"\"transform_matrix\":", " ", "[">> >>
    \o Flatten([r \in 1..Len(frame.transform_matrix) |->
                   json_row(frame.transform_matrix[r], 8,
                            r < Len(frame.transform_matrix))])
    \o << Indent(6) \o <<"]">>,
          Indent(4) \o <<"}">> \o Comma(more) >>

to_string_pretty(nerf_data) ==
    << <<"{">>,
       Indent(2) \o <<"\"camera_angle_x\":", " ">>
                 \o json_f64(nerf_data.camera_angle_x) \o <<",">> >>
    \o (IF nerf_data.frames = <<>>
        THEN << Indent(2) \o <<"\"frames\":", " ", "[]">> >>
        ELSE << Indent(2) \o <<"\"frames\":", " ", "[">> >>
             \o Flatten([k \in 1..Len(nerf_data.frames) |->
                            json_frame(nerf_data.frames[k],
                                       k < Len(nerf_data.frames))])
             \o << Indent(2) \o <<"]">> >>)
    \o << <<"}">> >>

(***************************************************************************)
(* The literal lines the converters recognise and write.                   *)
(***************************************************************************)
ElementVertexPrefix == <<"element", " ", "vertex">>
EndHeader == <<"end_header">>
PointsPrefix == <<"POINTS">>
DataAscii == <<"DATA", " ", "ascii">>

PlyHeader(n) ==
    << <<"ply">>,
       <<"format", " ", "ascii", " ", "1.0">>,
       <<"element", " ", "vertex", " ">> \o fmt_usize(n),
       <<"property", " ", "float", " ", "x">>,
       <<"property", " ", "float", " ", "y">>,
       <<"property", " ", "float", " ", "z">>,
       <<"end_header">> >>

PcdHeader(n) ==
    << <<"#", " ", ".PCD", " ", "v0.7", " ", "-", " ", "Point", " ", "Cloud",
         " ", "Data", " ", "file", " ", "format">>,
       <<"VERSION", " ", "0.7">>,
       <<"FIELDS", " ", "x", " ", "y", " ", "z">>,
       <<"SIZE", " ", "4", " ", "4", " ", "4">>,
       <<"TYPE", " ", "F", " ", "F", " ", "F">>,
       <<"COUNT", " ", "1", " ", "1", " ", "1">>,
       <<"WIDTH", " ">> \o fmt_usize(n),
       <<"HEIGHT", " ", "1">>,
       <<"VIEWPOINT", " ", "0", " ", "0", " ", "0", " ", "1", " ", "0", " ",
         "0", " ", "0">>,
       <<"POINTS", " ">> \o fmt_usize(n),
       <<"DATA", " ", "ascii">> >>

(***************************************************************************)
(* The file system.                                                        *)
(***************************************************************************)
NoFile == [kind |-> "none"]
Directory == [kind |-> "dir"]
TextFile(lines) == [kind |-> "text", lines |-> lines]
\* A file holding the JSON of a NeRFCamera value
JsonFile(value) == [kind |-> "json", value |-> value]

\* Path::join
join(base, name) == base \o "/" \o name

\* Results (crate::errors::Result<()>)
Ok == [tag |-> "Ok"]
IoError == [tag |-> "IoError"]
UnsupportedFormat(format) == [tag |-> "UnsupportedFormat", format |-> format]
ConversionFailed(source_format, target_format) ==
    [tag |-> "ConversionFailed", source_format |-> source_format,
     target_format |-> target_format]
InvalidPath(path) == [tag |-> "InvalidPath", path |-> path]
\* A call that does not return (an iterator that never ends)
NoReturn == [tag |-> "NoReturn"]

\* What a call did: its result, the file system it leaves, and the files it
\* opened or created (successfully), in order
Outcome(res, f, log) == [res |-> res, fs |-> f, log |-> log]

OpenEv(path) == <<"open", path>>
CreateEv(path) == <<"create", path>>

\* File::open(path) succeeds on a file or a directory
CanOpen(f, path) == path \in DOMAIN f /\ f[path].kind # "none"

\* Path::exists
exists(f, path) == path \in DOMAIN f /\ f[path].kind # "none"

\* The directory a joined path lies in (the other paths lie in the working
\* directory)
ParentOf ==
    ("sparse/cameras.txt" :> "sparse") @@
    ("sparse/images.txt" :> "sparse") @@
    ("out/cameras.txt" :> "out") @@
    ("out/images.txt" :> "out")

\* File::create(path) succeeds unless the path is a directory or lies under
\* something that is not a directory
CanCreate(f, path) ==
    /\ path \in DOMAIN f
    /\ f[path].kind # "dir"
    /\ path \in DOMAIN ParentOf => f[ParentOf[path]].kind = "dir"

\* File::create truncates
Created(f, path) == [f EXCEPT ![path] = TextFile(<<>>)]

\* writeln! of each of `lines` in turn
Written(f, path, lines) ==
    [f EXCEPT ![path] = TextFile(f[path].lines \o lines)]

(***************************************************************************)
(* Reading a file line by line (BufReader::lines).  A directory opens, but  *)
(* every read of it fails, so its iterator yields an error each time it is *)
(* asked; a line that is not UTF-8 yields one error and the iterator moves *)
(* on to the next line.                                                    *)
(***************************************************************************)
ReadsFailForever(obj) == obj.kind = "dir"

LinesOf(obj) ==
    CASE obj.kind = "text" -> obj.lines
      [] obj.kind = "json" -> to_string_pretty(obj.value)
      [] OTHER -> <<>>

(***************************************************************************)
(* formats::point_cloud::PointCloudConverter                               *)
(***************************************************************************)

\* The scan of a PLY input shared by ply_to_xyz and ply_to_pcd: `emit` says
\* what an accepted row contributes to the output ("xyz": its first three
\* tokens; "raw": the line as read).  st.err is set when a
\* `line?` returned an error; st.rows are the rows accepted so far.
PlyScanStart ==
    [in_vertex_data |-> FALSE, vertex_count |-> 0, processed_vertices |-> 0,
     rows |-> <<>>, err |-> FALSE]

\* Mutant of xyz_row: the line as read instead of its first three tokens
xyz_row_whole_line(line) == line

xyz_row(line) ==
    LET parts == split_whitespace(line)
    IN  parts[1] \o <<" ">> \o parts[2] \o <<" ">> \o parts[3]

raw_row(line) == line

\* Mutant of ply_scan: accepts rows while processed_vertices <= vertex_count
RECURSIVE ply_scan_inclusive(_, _, _, _)
ply_scan_inclusive(lines, i, st, emit) ==
    IF i > Len(lines) THEN st
    ELSE LET line == lines[i] IN
         IF IsReadError(line) THEN [st EXCEPT !.err = TRUE]
         ELSE IF starts_with(line, ElementVertexPrefix)
         THEN ply_scan_inclusive(lines, i + 1,
                       [st EXCEPT !.vertex_count = nth_usize_or_0(line, 2)], emit)
         ELSE IF line = EndHeader
         THEN ply_scan_inclusive(lines, i + 1, [st EXCEPT !.in_vertex_data = TRUE], emit)
         ELSE IF /\ st.in_vertex_data
                 /\ st.processed_vertices <= st.vertex_count
                 /\ Len(split_whitespace(line)) >= 3
         THEN ply_scan_inclusive(lines, i + 1,
                       [st EXCEPT !.rows = Append(@, IF emit = "xyz" THEN xyz_row(line)
                                                         ELSE raw_row(line)),
                                  !.processed_vertices = @ + 1], emit)
         ELSE ply_scan_inclusive(lines, i + 1, st, emit)

RECURSIVE ply_scan(_, _, _, _)
ply_scan(lines, i, st, emit) ==
    IF i > Len(lines) THEN st
    ELSE LET line == lines[i] IN
         IF IsReadError(line) THEN [st EXCEPT !.err = TRUE]
         ELSE IF starts_with(line, ElementVertexPrefix)
         THEN ply_scan(lines, i + 1,
                       [st EXCEPT !.vertex_count = nth_usize_or_0(line, 2)], emit)
         ELSE IF line = EndHeader
         THEN ply_scan(lines, i + 1, [st EXCEPT !.in_vertex_data = TRUE], emit)
         ELSE IF /\ st.in_vertex_data
                 /\ st.processed_vertices < st.vertex_count
                 /\ Len(split_whitespace(line)) >= 3
         THEN ply_scan(lines, i + 1,
                       [st EXCEPT !.rows = Append(@, IF emit = "xyz" THEN xyz_row(line)
                                                         ELSE raw_row(line)),
                                  !.processed_vertices = @ + 1], emit)
         ELSE ply_scan(lines, i + 1, st, emit)

\* Mutant of ply_to_xyz: the output is created before the input is opened
ply_to_xyz_output_first(f, input_path, output_path) ==
    IF ~CanCreate(f, output_path)
    THEN Outcome(IoError, f, <<>>)
    ELSE IF ~CanOpen(f, input_path)
    THEN Outcome(IoError, Created(f, output_path), <<CreateEv(output_path)>>)
    ELSE LET log == <<CreateEv(output_path), OpenEv(input_path)>>
             f1 == Created(f, output_path)
         IN  IF ReadsFailForever(f[input_path]) THEN Outcome(IoError, f1, log)
             ELSE LET st == ply_scan(LinesOf(f1[input_path]), 1, PlyScanStart, "xyz")
                      f2 == Written(f1, output_path, st.rows)
                  IN  Outcome(IF st.err THEN IoError ELSE Ok, f2, log)

ply_to_xyz(f, input_path, output_path) ==
    IF ~CanOpen(f, input_path)
    THEN Outcome(IoError, f, <<>>)
    ELSE IF ~CanCreate(f, output_path)
    THEN Outcome(IoError, f, <<OpenEv(input_path)>>)
    ELSE LET log == <<OpenEv(input_path), CreateEv(output_path)>>
             f1 == Created(f, output_path)
         IN  IF ReadsFailForever(f[input_path]) THEN Outcome(IoError, f1, log)
             ELSE LET st == ply_scan(LinesOf(f1[input_path]), 1, PlyScanStart, "xyz")
                      f2 == Written(f1, output_path, st.rows)
                  IN  Outcome(IF st.err THEN IoError ELSE Ok, f2, log)

ply_to_pcd(f, input_path, output_path) ==
    IF ~CanOpen(f, input_path)
    THEN Outcome(IoError, f, <<>>)
    ELSE IF ~CanCreate(f, output_path)
    THEN Outcome(IoError, f, <<OpenEv(input_path)>>)
    ELSE LET log == <<OpenEv(input_path), CreateEv(output_path)>>
             f1 == Created(f, output_path)
         IN  IF ReadsFailForever(f[input_path]) THEN Outcome(IoError, f1, log)
             ELSE LET st == ply_scan(LinesOf(f1[input_path]), 1, PlyScanStart, "raw")
                  IN  IF st.err THEN Outcome(IoError, f1, log)
                      ELSE Outcome(Ok,
                                   Written(f1, output_path,
                                           PcdHeader(Len(st.rows)) \o st.rows),
                                   log)

\* The scan of a PCD input shared by pcd_to_ply and pcd_to_xyz.  pcd_to_ply
\* also reads the POINTS field (`points`), which it only logs.
PcdScanStart == [in_data |-> FALSE, vertex_count |-> 0, rows |-> <<>>, err |-> FALSE]

\* Mutant of pcd_scan: any line that starts with DATA opens the data section
RECURSIVE pcd_scan_any_data(_, _, _, _)
pcd_scan_any_data(lines, i, st, points) ==
    IF i > Len(lines) THEN st
    ELSE LET line == lines[i] IN
         IF IsReadError(line) THEN [st EXCEPT !.err = TRUE]
         ELSE IF points /\ starts_with(line, PointsPrefix)
         THEN pcd_scan_any_data(lines, i + 1,
                       [st EXCEPT !.vertex_count = nth_usize_or_0(line, 1)], points)
         ELSE IF starts_with(line, <<"DATA">>)
         THEN pcd_scan_any_data(lines, i + 1, [st EXCEPT !.in_data = TRUE], points)
         ELSE IF st.in_data /\ ~trim_is_empty(line)
         THEN pcd_scan_any_data(lines, i + 1, [st EXCEPT !.rows = Append(@, line)],
                                points)
         ELSE pcd_scan_any_data(lines, i + 1, st, points)

RECURSIVE pcd_scan(_, _, _, _)
pcd_scan(lines, i, st, points) ==
    IF i > Len(lines) THEN st
    ELSE LET line == lines[i] IN
         IF IsReadError(line) THEN [st EXCEPT !.err = TRUE]
         ELSE IF points /\ starts_with(line, PointsPrefix)
         THEN pcd_scan(lines, i + 1,
                       [st EXCEPT !.vertex_count = nth_usize_or_0(line, 1)], points)
         ELSE IF line = DataAscii
         THEN pcd_scan(lines, i + 1, [st EXCEPT !.in_data = TRUE], points)
         ELSE IF st.in_data /\ ~trim_is_empty(line)
         THEN pcd_scan(lines, i + 1, [st EXCEPT !.rows = Append(@, line)], points)
         ELSE pcd_scan(lines, i + 1, st, points)

\* Mutant of pcd_to_ply: the header carries the declared POINTS value
pcd_to_ply_declared(f, input_path, output_path) ==
    IF ~CanOpen(f, input_path)
    THEN Outcome(IoError, f, <<>>)
    ELSE IF ~CanCreate(f, output_path)
    THEN Outcome(IoError, f, <<OpenEv(input_path)>>)
    ELSE LET log == <<OpenEv(input_path), CreateEv(output_path)>>
             f1 == Created(f, output_path)
             st == pcd_scan(LinesOf(f1[input_path]), 1, PcdScanStart, TRUE)
         IN  Outcome(Ok, Written(f1, output_path,
                                 PlyHeader(st.vertex_count) \o st.rows), log)

pcd_to_ply(f, input_path, output_path) ==
    IF ~CanOpen(f, input_path)
    THEN Outcome(IoError, f, <<>>)
    ELSE IF ~CanCreate(f, output_path)
    THEN Outcome(IoError, f, <<OpenEv(input_path)>>)
    ELSE LET log == <<OpenEv(input_path), CreateEv(output_path)>>
             f1 == Created(f, output_path)
         IN  IF ReadsFailForever(f[input_path]) THEN Outcome(IoError, f1, log)
             ELSE LET st == pcd_scan(LinesOf(f1[input_path]), 1, PcdScanStart, TRUE)
                  IN  IF st.err THEN Outcome(IoError, f1, log)
                      ELSE Outcome(Ok,
                                   Written(f1, output_path,
                                           PlyHeader(Len(st.rows)) \o st.rows),
                                   log)

pcd_to_xyz(f, input_path, output_path) ==
    IF ~CanOpen(f, input_path)
    THEN Outcome(IoError, f, <<>>)
    ELSE IF ~CanCreate(f, output_path)
    THEN Outcome(IoError, f, <<OpenEv(input_path)>>)
    ELSE LET log == <<OpenEv(input_path), CreateEv(output_path)>>
             f1 == Created(f, output_path)
         IN  IF ReadsFailForever(f[input_path]) THEN Outcome(IoError, f1, log)
             ELSE LET st == pcd_scan(LinesOf(f1[input_path]), 1, PcdScanStart, FALSE)
                  IN  Outcome(IF st.err THEN IoError ELSE Ok,
                              Written(f1, output_path, st.rows), log)

\* The second pass of xyz_to_ply and xyz_to_pcd: the lines that are not
\* whitespace-only, up to the first read error.
RECURSIVE copy_rows(_, _, _)
copy_rows(lines, i, st) ==
    IF i > Len(lines) THEN st
    ELSE IF IsReadError(lines[i]) THEN [st EXCEPT !.err = TRUE]
    ELSE IF ~trim_is_empty(lines[i])
    THEN copy_rows(lines, i + 1, [st EXCEPT !.rows = Append(@, lines[i])])
    ELSE copy_rows(lines, i + 1, st)

\* Mutant of lines_count: one more than the lines read
lines_count_plus_one(lines) == Len(lines) + 1

\* reader.lines().count(): every item the iterator yields, errors included
lines_count(lines) == Len(lines)

\* xyz_to_ply and xyz_to_pcd differ only in the header they write.
xyz_two_pass(f, input_path, output_path, target) ==
    IF ~CanOpen(f, input_path)
    THEN Outcome(IoError, f, <<>>)
    ELSE IF ReadsFailForever(f[input_path])
    THEN Outcome(NoReturn, f, <<OpenEv(input_path)>>)
    ELSE LET vertex_count == lines_count(LinesOf(f[input_path]))
             log == <<OpenEv(input_path), OpenEv(input_path), CreateEv(output_path)>>
         IN  IF ~CanCreate(f, output_path)
             THEN Outcome(IoError, f, <<OpenEv(input_path), OpenEv(input_path)>>)
             ELSE LET f1 == Written(Created(f, output_path), output_path,
                                    IF target = "ply" THEN PlyHeader(vertex_count)
                                                      ELSE PcdHeader(vertex_count))
                      st == copy_rows(LinesOf(f1[input_path]), 1,
                                      [rows |-> <<>>, err |-> FALSE])
                  IN  Outcome(IF st.err THEN IoError ELSE Ok,
                              Written(f1, output_path, st.rows), log)

xyz_to_ply(f, input_path, output_path) ==
    xyz_two_pass(f, input_path, output_path, "ply")

xyz_to_pcd(f, input_path, output_path) ==
    xyz_two_pass(f, input_path, output_path, "pcd")

(***************************************************************************)
(* formats::DataFormat and the converters' public entry points             *)
(***************************************************************************)
PointCloud(kind) == [cat |-> "PointCloud", kind |-> kind]
CameraParameters(kind) == [cat |-> "CameraParameters", kind |-> kind]
Dataset(kind) == [cat |-> "Dataset", kind |-> kind]

PointCloudKinds == {"PLY", "PCD", "XYZ", "LAZ", "Custom"}
CameraKinds == {"COLMAP", "NeRF", "OpenCV", "Blender", "Custom"}

\* format!("{:?}", ..) of a kind and of a DataFormat
DebugKind(kind) == kind
DebugFormat(fmt) == fmt.cat \o "(" \o fmt.kind \o ")"

\* PointCloudConverter::convert_point_cloud
convert_point_cloud(f, input_path, output_path, from_format, to_format) ==
    CASE from_format = "PLY" /\ to_format = "XYZ" -> ply_to_xyz(f, input_path, output_path)
      [] from_format = "XYZ" /\ to_format = "PLY" -> xyz_to_ply(f, input_path, output_path)
      [] from_format = "PLY" /\ to_format = "PCD" -> ply_to_pcd(f, input_path, output_path)
      [] from_format = "PCD" /\ to_format = "PLY" -> pcd_to_ply(f, input_path, output_path)
      [] from_format = "XYZ" /\ to_format = "PCD" -> xyz_to_pcd(f, input_path, output_path)
      [] from_format = "PCD" /\ to_format = "XYZ" -> pcd_to_xyz(f, input_path, output_path)
      [] OTHER -> Outcome(ConversionFailed(DebugKind(from_format), DebugKind(to_format)),
                          f, <<>>)

\* <PointCloudConverter as FormatConverter>::can_convert
pc_can_convert(from, to) == from.cat = "PointCloud" /\ to.cat = "PointCloud"

\* <PointCloudConverter as FormatConverter>::convert
pc_convert(f, input_path, output_path, from, to) ==
    IF from.cat = "PointCloud" /\ to.cat = "PointCloud"
    THEN convert_point_cloud(f, input_path, output_path, from.kind, to.kind)
    ELSE Outcome(ConversionFailed(DebugFormat(from), DebugFormat(to)), f, <<>>)

(***************************************************************************)
(* Format names and paths.  A format token and a file extension are        *)
(* sequences of characters; a path is a string whose extension             *)
(* (Path::extension) is looked up in PathExtension.                        *)
(***************************************************************************)
Uppercase == <<"A", "B", "C", "D", "E", "F", "G", "H", "I", "J", "K", "L", "M",
               "N", "O", "P", "Q", "R", "S", "T", "U", "V", "W", "X", "Y", "Z">>
Lowercase == <<"a", "b", "c", "d", "e", "f", "g", "h", "i", "j", "k", "l", "m",
               "n", "o", "p", "q", "r", "s", "t", "u", "v", "w", "x", "y", "z">>

\* str::to_lowercase
to_lowercase(str) ==
    [i \in 1..Len(str) |->
        IF \E k \in 1..Len(Uppercase) : Uppercase[k] = str[i]
        THEN Lowercase[CHOOSE k \in 1..Len(Uppercase) : Uppercase[k] = str[i]]
        ELSE str[i]]

PathExtension ==
    ("cloud.ply" :> <<"p", "l", "y">>) @@
    ("CLOUD.PLY" :> <<"P", "L", "Y">>) @@
    ("cloud.pcd" :> <<"p", "c", "d">>) @@
    ("cloud.xyz" :> <<"x", "y", "z">>) @@
    ("tile.laz" :> <<"l", "a", "z">>) @@
    ("scan.txt" :> <<"t", "x", "t">>) @@
    ("sparse/cameras.txt" :> <<"t", "x", "t">>) @@
    ("sparse/images.txt" :> <<"t", "x", "t">>) @@
    ("transforms.json" :> <<"j", "s", "o", "n">>) @@
    ("mesh.obj" :> <<"o", "b", "j">>) @@
    ("MESH.Obj" :> <<"O", "b", "j">>) @@
    ("out.ply" :> <<"p", "l", "y">>)

\* path.extension().and_then(|s| s.to_str()).unwrap_or("")
extension_or_empty(path) ==
    IF path \in DOMAIN PathExtension THEN PathExtension[path] ELSE <<>>

Resolved(fmt, log) == [ok |-> TRUE, fmt |-> fmt, log |-> log]
Unresolved(err, log) == [ok |-> FALSE, err |-> err, log |-> log]

(***************************************************************************)
(* formats::parse_format, formats::detect_format (formats/mod.rs)          *)
(***************************************************************************)
\* Mutant of parse_format: the lookup is case-sensitive
parse_format_exact(format_str) ==
    LET name == format_str
    IN  CASE name = <<"p", "l", "y">> -> Resolved(PointCloud("PLY"), <<>>)
          [] name = <<"p", "c", "d">> -> Resolved(PointCloud("PCD"), <<>>)
          [] name = <<"x", "y", "z">> -> Resolved(PointCloud("XYZ"), <<>>)
          [] name = <<"l", "a", "z">> -> Resolved(PointCloud("LAZ"), <<>>)
          [] name = <<"c", "o", "l", "m", "a", "p">> ->
                Resolved(CameraParameters("COLMAP"), <<>>)
          [] name = <<"n", "e", "r", "f">> -> Resolved(CameraParameters("NeRF"), <<>>)
          [] name = <<"o", "p", "e", "n", "c", "v">> ->
                Resolved(CameraParameters("OpenCV"), <<>>)
          [] name = <<"b", "l", "e", "n", "d", "e", "r">> ->
                Resolved(CameraParameters("Blender"), <<>>)
          [] OTHER -> Unresolved(UnsupportedFormat(format_str), <<>>)

parse_format(format_str) ==
    LET name == to_lowercase(format_str)
    IN  CASE name = <<"p", "l", "y">> -> Resolved(PointCloud("PLY"), <<>>)
          [] name = <<"p", "c", "d">> -> Resolved(PointCloud("PCD"), <<>>)
          [] name = <<"x", "y", "z">> -> Resolved(PointCloud("XYZ"), <<>>)
          [] name = <<"l", "a", "z">> -> Resolved(PointCloud("LAZ"), <<>>)
          [] name = <<"c", "o", "l", "m", "a", "p">> ->
                Resolved(CameraParameters("COLMAP"), <<>>)
          [] name = <<"n", "e", "r", "f">> -> Resolved(CameraParameters("NeRF"), <<>>)
          [] name = <<"o", "p", "e", "n", "c", "v">> ->
                Resolved(CameraParameters("OpenCV"), <<>>)
          [] name = <<"b", "l", "e", "n", "d", "e", "r">> ->
                Resolved(CameraParameters("Blender"), <<>>)
          [] OTHER -> Unresolved(UnsupportedFormat(format_str), <<>>)

CameraListMarker == <<"#", " ", "Camera", " ", "list">>
ImageListMarker == <<"#", " ", "Image", " ", "list">>

\* reader.lines().take(SniffLimit)
SniffLimit == 5

\* Mutant of sniff: looks at one line more
RECURSIVE sniff_one_more(_, _)
sniff_one_more(lines, i) ==
    IF i > Len(lines) \/ i > SniffLimit + 1 THEN "no"
    ELSE IF IsReadError(lines[i]) THEN "error"
    ELSE IF contains(lines[i], CameraListMarker) \/ contains(lines[i], ImageListMarker)
    THEN "yes"
    ELSE sniff_one_more(lines, i + 1)

\* The loop of looks_like_camera_params from line i on: "yes", "no", or
\* "error" when a line could not be read
RECURSIVE sniff(_, _)
sniff(lines, i) ==
    IF i > Len(lines) \/ i > SniffLimit THEN "no"
    ELSE IF IsReadError(lines[i]) THEN "error"
    ELSE IF contains(lines[i], CameraListMarker) \/ contains(lines[i], ImageListMarker)
    THEN "yes"
    ELSE sniff(lines, i + 1)

\* formats::looks_like_camera_params
looks_like_camera_params(f, path) ==
    IF ~CanOpen(f, path) THEN [res |-> IoError, value |-> FALSE, log |-> <<>>]
    ELSE LET log == <<OpenEv(path)>>
             found == sniff(LinesOf(f[path]), 1)
         IN  IF ReadsFailForever(f[path]) \/ found = "error"
             THEN [res |-> IoError, value |-> FALSE, log |-> log]
             ELSE [res |-> Ok, value |-> (found = "yes"), log |-> log]

\* Mutant of detect_format: the error carries the lowercased extension
detect_format_lowercased(f, path) ==
    LET extension == extension_or_empty(path)
        ext == to_lowercase(extension)
    IN  CASE ext = <<"p", "l", "y">> -> Resolved(PointCloud("PLY"), <<>>)
          [] ext = <<"p", "c", "d">> -> Resolved(PointCloud("PCD"), <<>>)
          [] ext = <<"x", "y", "z">> -> Resolved(PointCloud("XYZ"), <<>>)
          [] ext = <<"l", "a", "z">> -> Resolved(PointCloud("LAZ"), <<>>)
          [] ext = <<"t", "x", "t">> ->
                LET looks == looks_like_camera_params(f, path)
                IN  IF looks.res # Ok THEN Unresolved(looks.res, looks.log)
                    ELSE IF looks.value
                    THEN Resolved(CameraParameters("COLMAP"), looks.log)
                    ELSE Resolved(PointCloud("XYZ"), looks.log)
          [] ext = <<"j", "s", "o", "n">> -> Resolved(CameraParameters("NeRF"), <<>>)
          [] OTHER -> Unresolved(UnsupportedFormat(ext), <<>>)

detect_format(f, path) ==
    LET extension == extension_or_empty(path)
        ext == to_lowercase(extension)
    IN  CASE ext = <<"p", "l", "y">> -> Resolved(PointCloud("PLY"), <<>>)
          [] ext = <<"p", "c", "d">> -> Resolved(PointCloud("PCD"), <<>>)
          [] ext = <<"x", "y", "z">> -> Resolved(PointCloud("XYZ"), <<>>)
          [] ext = <<"l", "a", "z">> -> Resolved(PointCloud("LAZ"), <<>>)
          [] ext = <<"t", "x", "t">> ->
                LET looks == looks_like_camera_params(f, path)
                IN  IF looks.res # Ok THEN Unresolved(looks.res, looks.log)
                    ELSE IF looks.value
                    THEN Resolved(CameraParameters("COLMAP"), looks.log)
                    ELSE Resolved(PointCloud("XYZ"), looks.log)
          [] ext = <<"j", "s", "o", "n">> -> Resolved(CameraParameters("NeRF"), <<>>)
          [] OTHER -> Unresolved(UnsupportedFormat(extension), <<>>)

(***************************************************************************)
(* formats::camera_params::CameraParamsConverter                           *)
(***************************************************************************)
CamerasHeader ==
    << Words(<<"#", "Camera", "list", "with", "one", "line", "of", "data", "per",
               "camera:">>),
       Words(<<"#", "CAMERA_ID,", "MODEL,", "WIDTH,", "HEIGHT,", "PARAMS[]">>) >>

ImagesHeader ==
    << Words(<<"#", "Image", "list", "with", "two", "lines", "of", "data", "per",
               "image:">>),
       Words(<<"#", "IMAGE_ID,", "QW,", "QX,", "QY,", "QZ,", "TX,", "TY,", "TZ,",
               "CAMERA_ID,", "NAME">>) >>

OpenCvHeader ==
    << Words(<<"#", "OpenCV", "camera", "parameters", "converted", "from",
               "COLMAP">>),
       Words(<<"#", "Format:", "camera_id", "width", "height", "fx", "fy", "cx",
               "cy">>) >>

\* parts[k].parse::<u32>().unwrap_or(0), parts[k].parse::<f64>().unwrap_or(0.0)
u32_or_0(tok) ==
    LET unwrap_or(parsed, default) == IF parsed.some THEN parsed.value ELSE default
    IN  unwrap_or(parse_u32(tok), 0)

f64_or_0(tok) ==
    LET unwrap_or(parsed, default) == IF parsed.some THEN parsed.value ELSE default
    IN  unwrap_or(parse_f64(tok), F(0))

\* parts[4..].iter().filter_map(|s| s.parse::<f64>().ok()).collect()
RECURSIVE parse_params(_, _)
parse_params(parts, i) ==
    IF i > Len(parts) THEN <<>>
    ELSE LET ok(parsed) == IF parsed.some THEN <<parsed.value>> ELSE <<>>
         IN  ok(parse_f64(parts[i])) \o parse_params(parts, i + 1)

\* line.starts_with('#') || line.trim().is_empty()
is_comment_or_blank(line) == starts_with(line, <<"#">>) \/ trim_is_empty(line)

Read(res, value, log) == [res |-> res, value |-> value, log |-> log]

\* The loop of read_colmap_cameras from line i on
RECURSIVE scan_cameras(_, _, _)
scan_cameras(lines, i, cameras) ==
    IF i > Len(lines) THEN [err |-> FALSE, value |-> cameras]
    ELSE IF IsReadError(lines[i]) THEN [err |-> TRUE, value |-> cameras]
    ELSE IF is_comment_or_blank(lines[i]) THEN scan_cameras(lines, i + 1, cameras)
    ELSE LET parts == split_whitespace(lines[i])
         IN  IF Len(parts) >= 5
             THEN scan_cameras(lines, i + 1,
                     Append(cameras,
                            [camera_id |-> u32_or_0(parts[1]),
                             model |-> parts[2],
                             width |-> u32_or_0(parts[3]),
                             height |-> u32_or_0(parts[4]),
                             params |-> parse_params(parts, 5)]))
             ELSE scan_cameras(lines, i + 1, cameras)

\* Mutant of read_colmap_cameras: no exists() test before File::open
read_colmap_cameras_unchecked(f, base_path) ==
    LET cameras_file == join(base_path, "cameras.txt")
    IN  IF ~CanOpen(f, cameras_file)
        THEN Read(IoError, <<>>, <<>>)
        ELSE LET log == <<OpenEv(cameras_file)>>
                 scanned == scan_cameras(LinesOf(f[cameras_file]), 1, <<>>)
             IN  IF ReadsFailForever(f[cameras_file]) \/ scanned.err
                 THEN Read(IoError, <<>>, log)
                 ELSE Read(Ok, scanned.value, log)

read_colmap_cameras(f, base_path) ==
    LET cameras_file == join(base_path, "cameras.txt")
    IN  IF ~exists(f, cameras_file)
        THEN Read(InvalidPath(cameras_file), <<>>, <<>>)
        ELSE LET log == <<OpenEv(cameras_file)>>
                 scanned == scan_cameras(LinesOf(f[cameras_file]), 1, <<>>)
             IN  IF ReadsFailForever(f[cameras_file]) \/ scanned.err
                 THEN Read(IoError, <<>>, log)
                 ELSE Read(Ok, scanned.value, log)

\* Mutant of scan_images: a pose field that is not a number fails the read
RECURSIVE scan_images_strict(_, _, _)
scan_images_strict(lines, i, images) ==
    IF i > Len(lines) THEN [err |-> FALSE, value |-> images]
    ELSE IF IsReadError(lines[i]) THEN [err |-> TRUE, value |-> images]
    ELSE IF is_comment_or_blank(lines[i]) THEN scan_images_strict(lines, i + 1, images)
    ELSE LET parts == split_whitespace(lines[i])
         IN  IF Len(parts) >= 10
             THEN IF \E k \in 2..8 : ~parse_f64(parts[k]).some
                  THEN [err |-> TRUE, value |-> images]
                  ELSE scan_images_strict(lines, i + 1,
                     Append(images,
                            [image_id |-> u32_or_0(parts[1]),
                             qw |-> f64_or_0(parts[2]),
                             qx |-> f64_or_0(parts[3]),
                             qy |-> f64_or_0(parts[4]),
                             qz |-> f64_or_0(parts[5]),
                             tx |-> f64_or_0(parts[6]),
                             ty |-> f64_or_0(parts[7]),
                             tz |-> f64_or_0(parts[8]),
                             camera_id |-> u32_or_0(parts[9]),
                             name |-> parts[10]]))
             ELSE scan_images_strict(lines, i + 1, images)

\* The loop of read_colmap_images from line i on
RECURSIVE scan_images(_, _, _)
scan_images(lines, i, images) ==
    IF i > Len(lines) THEN [err |-> FALSE, value |-> images]
    ELSE IF IsReadError(lines[i]) THEN [err |-> TRUE, value |-> images]
    ELSE IF is_comment_or_blank(lines[i]) THEN scan_images(lines, i + 1, images)
    ELSE LET parts == split_whitespace(lines[i])
         IN  IF Len(parts) >= 10
             THEN scan_images(lines, i + 1,
                     Append(images,
                            [image_id |-> u32_or_0(parts[1]),
                             qw |-> f64_or_0(parts[2]),
                             qx |-> f64_or_0(parts[3]),
                             qy |-> f64_or_0(parts[4]),
                             qz |-> f64_or_0(parts[5]),
                             tx |-> f64_or_0(parts[6]),
                             ty |-> f64_or_0(parts[7]),
                             tz |-> f64_or_0(parts[8]),
                             camera_id |-> u32_or_0(parts[9]),
                             name |-> parts[10]]))
             ELSE scan_images(lines, i + 1, images)

read_colmap_images(f, base_path) ==
    LET images_file == join(base_path, "images.txt")
    IN  IF ~exists(f, images_file)
        THEN Read(InvalidPath(images_file), <<>>, <<>>)
        ELSE LET log == <<OpenEv(images_file)>>
                 scanned == scan_images(LinesOf(f[images_file]), 1, <<>>)
             IN  IF ReadsFailForever(f[images_file]) \/ scanned.err
                 THEN Read(IoError, <<>>, log)
                 ELSE Read(Ok, scanned.value, log)

quaternion_to_matrix(qw, qx, qy, qz, tx, ty, tz) ==
    LET two(x) == RMul(F(2), x)
        one_minus(x) == RSub(F(1), x)
    IN  << << one_minus(two(RAdd(RMul(qy, qy), RMul(qz, qz)))),
              two(RSub(RMul(qx, qy), RMul(qz, qw))),
              two(RAdd(RMul(qx, qz), RMul(qy, qw))),
              tx >>,
           << two(RAdd(RMul(qx, qy), RMul(qz, qw))),
              one_minus(two(RAdd(RMul(qx, qx), RMul(qz, qz)))),
              two(RSub(RMul(qy, qz), RMul(qx, qw))),
              ty >>,
           << two(RSub(RMul(qx, qz), RMul(qy, qw))),
              two(RAdd(RMul(qy, qz), RMul(qx, qw))),
              one_minus(two(RAdd(RMul(qx, qx), RMul(qy, qy)))),
              tz >>,
           << F(0), F(0), F(0), F(1) >> >>

\* Mutant of matrix_to_quaternion: a trace of exactly 0 takes the square-root
\* branch
matrix_to_quaternion_nonnegative(matrix) ==
    LET tx == matrix[1][4]
        ty == matrix[2][4]
        tz == matrix[3][4]
        trace == RAdd(RAdd(matrix[1][1], matrix[2][2]), matrix[3][3])
        s == RMul(RSqrt(RAdd(trace, F(1))), F(2))
    IN  IF trace.num >= 0
        THEN [qw |-> RMul(Rat(1, 4), s),
              qx |-> RDiv(RSub(matrix[3][2], matrix[2][3]), s),
              qy |-> RDiv(RSub(matrix[1][3], matrix[3][1]), s),
              qz |-> RDiv(RSub(matrix[2][1], matrix[1][2]), s),
              tx |-> tx, ty |-> ty, tz |-> tz]
        ELSE [qw |-> F(1), qx |-> F(0), qy |-> F(0), qz |-> F(0),
              tx |-> tx, ty |-> ty, tz |-> tz]

\* Mutant of matrix_to_quaternion: the vector part is taken from the
\* transposed differences
matrix_to_quaternion_transposed(matrix) ==
    LET tx == matrix[1][4]
        ty == matrix[2][4]
        tz == matrix[3][4]
        trace == RAdd(RAdd(matrix[1][1], matrix[2][2]), matrix[3][3])
        s == RMul(RSqrt(RAdd(trace, F(1))), F(2))
    IN  IF RPositive(trace)
        THEN [qw |-> RMul(Rat(1, 4), s),
              qx |-> RDiv(RSub(matrix[2][3], matrix[3][2]), s),
              qy |-> RDiv(RSub(matrix[3][1], matrix[1][3]), s),
              qz |-> RDiv(RSub(matrix[1][2], matrix[2][1]), s),
              tx |-> tx, ty |-> ty, tz |-> tz]
        ELSE [qw |-> F(1), qx |-> F(0), qy |-> F(0), qz |-> F(0),
              tx |-> tx, ty |-> ty, tz |-> tz]

matrix_to_quaternion(matrix) ==
    LET tx == matrix[1][4]
        ty == matrix[2][4]
        tz == matrix[3][4]
        trace == RAdd(RAdd(matrix[1][1], matrix[2][2]), matrix[3][3])
        s == RMul(RSqrt(RAdd(trace, F(1))), F(2))
    IN  IF RPositive(trace)
        THEN [qw |-> RMul(Rat(1, 4), s),
              qx |-> RDiv(RSub(matrix[3][2], matrix[2][3]), s),
              qy |-> RDiv(RSub(matrix[1][3], matrix[3][1]), s),
              qz |-> RDiv(RSub(matrix[2][1], matrix[1][2]), s),
              tx |-> tx, ty |-> ty, tz |-> tz]
        ELSE [qw |-> F(1), qx |-> F(0), qy |-> F(0), qz |-> F(0),
              tx |-> tx, ty |-> ty, tz |-> tz]

DefaultFx == F(500)

\* Mutant of convert_colmap_to_nerf_data: the last camera record is the one
\* used
convert_colmap_to_nerf_data_last_camera(cameras, images) ==
    IF cameras = <<>>
    THEN [res |-> ConversionFailed("COLMAP", "NeRF")]
    ELSE LET camera == cameras[Len(cameras)]
             fx == IF Len(camera.params) >= 1 THEN camera.params[1] ELSE DefaultFx
             camera_angle_x ==
                 [two_atan_of |-> RDiv(F(camera.width), RMul(F(2), fx))]
         IN  [res |-> Ok,
              value |->
                [camera_angle_x |-> camera_angle_x,
                 frames |->
                   [k \in 1..Len(images) |->
                      [file_path |-> images[k].name,
                       rotation |-> F(0),
                       transform_matrix |->
                          quaternion_to_matrix(images[k].qw, images[k].qx,
                                               images[k].qy, images[k].qz,
                                               images[k].tx, images[k].ty,
                                               images[k].tz)]]]]

\* Mutant of convert_colmap_to_nerf_data: the frames come out in reverse order
convert_colmap_to_nerf_data_reversed(cameras, images) ==
    IF cameras = <<>>
    THEN [res |-> ConversionFailed("COLMAP", "NeRF")]
    ELSE LET camera == cameras[1]
             fx == IF Len(camera.params) >= 1 THEN camera.params[1] ELSE DefaultFx
             camera_angle_x ==
                 [two_atan_of |-> RDiv(F(camera.width), RMul(F(2), fx))]
             image(k) == images[Len(images) + 1 - k]
         IN  [res |-> Ok,
              value |->
                [camera_angle_x |-> camera_angle_x,
                 frames |->
                   [k \in 1..Len(images) |->
                      [file_path |-> image(k).name,
                       rotation |-> F(0),
                       transform_matrix |->
                          quaternion_to_matrix(image(k).qw, image(k).qx,
                                               image(k).qy, image(k).qz,
                                               image(k).tx, image(k).ty,
                                               image(k).tz)]]]]

convert_colmap_to_nerf_data(cameras, images) ==
    IF cameras = <<>>
    THEN [res |-> ConversionFailed("COLMAP", "NeRF")]
    ELSE LET camera == cameras[1]
             fx == IF Len(camera.params) >= 1 THEN camera.params[1] ELSE DefaultFx
             camera_angle_x ==
                 [two_atan_of |-> RDiv(F(camera.width), RMul(F(2), fx))]
         IN  [res |-> Ok,
              value |->
                [camera_angle_x |-> camera_angle_x,
                 frames |->
                   [k \in 1..Len(images) |->
                      [file_path |-> images[k].name,
                       rotation |-> F(0),
                       transform_matrix |->
                          quaternion_to_matrix(images[k].qw, images[k].qx,
                                               images[k].qy, images[k].qz,
                                               images[k].tx, images[k].ty,
                                               images[k].tz)]]]]

\* Mutant of convert_nerf_to_colmap_data: image ids count from 0
convert_nerf_to_colmap_data_zero_based(nerf_data) ==
    [cameras |-> << [camera_id |-> 1, model |-> <<"PINHOLE">>,
                     width |-> 640, height |-> 480,
                     params |-> <<F(500), F(500), F(320), F(240)>>] >>,
     images |->
        [k \in 1..Len(nerf_data.frames) |->
            LET image(q) ==
                    [image_id |-> k - 1,
                     qw |-> q.qw, qx |-> q.qx, qy |-> q.qy, qz |-> q.qz,
                     tx |-> q.tx, ty |-> q.ty, tz |-> q.tz,
                     camera_id |-> 1,
                     name |-> nerf_data.frames[k].file_path]
            IN  image(matrix_to_quaternion(nerf_data.frames[k].transform_matrix))]]

convert_nerf_to_colmap_data(nerf_data) ==
    [cameras |-> << [camera_id |-> 1, model |-> <<"PINHOLE">>,
                     width |-> 640, height |-> 480,
                     params |-> <<F(500), F(500), F(320), F(240)>>] >>,
     images |->
        [k \in 1..Len(nerf_data.frames) |->
            LET image(q) ==
                    [image_id |-> k,
                     qw |-> q.qw, qx |-> q.qx, qy |-> q.qy, qz |-> q.qz,
                     tx |-> q.tx, ty |-> q.ty, tz |-> q.tz,
                     camera_id |-> 1,
                     name |-> nerf_data.frames[k].file_path]
            IN  image(matrix_to_quaternion(nerf_data.frames[k].transform_matrix))]]

camera_line(camera) ==
    JoinTokens(<<fmt_usize(camera.camera_id), camera.model,
                 fmt_usize(camera.width), fmt_usize(camera.height)>>
               \o [k \in 1..Len(camera.params) |-> fmt_f64(camera.params[k])])

write_colmap_cameras(f, base_path, cameras) ==
    LET cameras_file == join(base_path, "cameras.txt")
    IN  IF ~CanCreate(f, cameras_file) THEN Outcome(IoError, f, <<>>)
        ELSE Outcome(Ok,
                     Written(Created(f, cameras_file), cameras_file,
                             CamerasHeader
                             \o [k \in 1..Len(cameras) |-> camera_line(cameras[k])]),
                     <<CreateEv(cameras_file)>>)

image_line(image) ==
    JoinTokens(<<fmt_usize(image.image_id),
                 fmt_f64(image.qw), fmt_f64(image.qx), fmt_f64(image.qy),
                 fmt_f64(image.qz), fmt_f64(image.tx), fmt_f64(image.ty),
                 fmt_f64(image.tz), fmt_usize(image.camera_id), image.name>>)

write_colmap_images(f, base_path, images) ==
    LET images_file == join(base_path, "images.txt")
    IN  IF ~CanCreate(f, images_file) THEN Outcome(IoError, f, <<>>)
        ELSE Outcome(Ok,
                     Written(Created(f, images_file), images_file,
                             ImagesHeader
                             \o Flatten([k \in 1..Len(images) |->
                                           <<image_line(images[k]), <<>> >>])),
                     <<CreateEv(images_file)>>)

colmap_to_nerf(f, input_path, output_path) ==
    LET write(nerf_data, log) ==
            IF nerf_data.res # Ok THEN Outcome(nerf_data.res, f, log)
            ELSE IF ~CanCreate(f, output_path) THEN Outcome(IoError, f, log)
            ELSE Outcome(Ok, [f EXCEPT ![output_path] = JsonFile(nerf_data.value)],
                         log \o <<CreateEv(output_path)>>)
        convert(cameras, images) ==
            IF cameras.res # Ok THEN Outcome(cameras.res, f, cameras.log)
            ELSE IF images.res # Ok
            THEN Outcome(images.res, f, cameras.log \o images.log)
            ELSE write(convert_colmap_to_nerf_data(cameras.value, images.value),
                       cameras.log \o images.log)
    IN  convert(read_colmap_cameras(f, input_path),
                read_colmap_images(f, input_path))

SerializationError == [tag |-> "SerializationError"]

\* serde_json::from_reader::<_, NeRFCamera>: the value of a file that holds
\* one (a camera_angle_x written as null is not a number), an error for a
\* directory and for text that is not such a JSON document
from_reader(obj) ==
    IF /\ obj.kind = "json"
       /\ json_f64(obj.value.camera_angle_x) # <<"null">>
    THEN [res |-> Ok, value |-> obj.value]
    ELSE [res |-> SerializationError]

nerf_to_colmap(f, input_path, output_path) ==
    LET log == <<OpenEv(input_path)>>
        written(cameras, images) ==
            Outcome(images.res, images.fs, log \o cameras.log \o images.log)
        write_images(cameras, images) ==
            IF cameras.res # Ok THEN Outcome(cameras.res, f, log)
            ELSE written(cameras,
                         write_colmap_images(cameras.fs, output_path, images))
        write(data) ==
            write_images(write_colmap_cameras(f, output_path, data.cameras),
                         data.images)
        convert(nerf_data) ==
            IF nerf_data.res # Ok THEN Outcome(nerf_data.res, f, log)
            ELSE write(convert_nerf_to_colmap_data(nerf_data.value))
    IN  IF ~CanOpen(f, input_path) THEN Outcome(IoError, f, <<>>)
        ELSE convert(from_reader(f[input_path]))

opencv_line(camera) ==
    JoinTokens(<<fmt_usize(camera.camera_id), fmt_usize(camera.width),
                 fmt_usize(camera.height),
                 fmt_f64(camera.params[1]), fmt_f64(camera.params[2]),
                 fmt_f64(camera.params[3]), fmt_f64(camera.params[4])>>)

\* Mutant of colmap_to_opencv: a camera needs five parameters to be written
colmap_to_opencv_five_params(f, input_path, output_path) ==
    LET convert(cameras, images) ==
            IF cameras.res # Ok THEN Outcome(cameras.res, f, cameras.log)
            ELSE IF images.res # Ok
            THEN Outcome(images.res, f, cameras.log \o images.log)
            ELSE IF ~CanCreate(f, output_path)
            THEN Outcome(IoError, f, cameras.log \o images.log)
            ELSE Outcome(Ok,
                         Written(Created(f, output_path), output_path,
                                 OpenCvHeader
                                 \o Flatten([k \in 1..Len(cameras.value) |->
                                       IF Len(cameras.value[k].params) >= 5
                                       THEN <<opencv_line(cameras.value[k])>>
                                       ELSE <<>>])),
                         cameras.log \o images.log \o <<CreateEv(output_path)>>)
    IN  convert(read_colmap_cameras(f, input_path),
                read_colmap_images(f, input_path))

colmap_to_opencv(f, input_path, output_path) ==
    LET convert(cameras, images) ==
            IF cameras.res # Ok THEN Outcome(cameras.res, f, cameras.log)
            ELSE IF images.res # Ok
            THEN Outcome(images.res, f, cameras.log \o images.log)
            ELSE IF ~CanCreate(f, output_path)
            THEN Outcome(IoError, f, cameras.log \o images.log)
            ELSE Outcome(Ok,
                         Written(Created(f, output_path), output_path,
                                 OpenCvHeader
                                 \o Flatten([k \in 1..Len(cameras.value) |->
                                       IF Len(cameras.value[k].params) >= 4
                                       THEN <<opencv_line(cameras.value[k])>>
                                       ELSE <<>>])),
                         cameras.log \o images.log \o <<CreateEv(output_path)>>)
    IN  convert(read_colmap_cameras(f, input_path),
                read_colmap_images(f, input_path))

opencv_to_colmap(f, input_path, output_path) ==
    IF ~CanCreate(f, output_path) THEN Outcome(IoError, f, <<>>)
    ELSE Outcome(Ok, Written(Created(f, output_path), output_path, CamerasHeader),
                 <<CreateEv(output_path)>>)

\* CameraParamsConverter::convert_camera_params
convert_camera_params(f, input_path, output_path, from_format, to_format) ==
    CASE from_format = "COLMAP" /\ to_format = "NeRF" ->
            colmap_to_nerf(f, input_path, output_path)
      [] from_format = "NeRF" /\ to_format = "COLMAP" ->
            nerf_to_colmap(f, input_path, output_path)
      [] from_format = "COLMAP" /\ to_format = "OpenCV" ->
            colmap_to_opencv(f, input_path, output_path)
      [] from_format = "OpenCV" /\ to_format = "COLMAP" ->
            opencv_to_colmap(f, input_path, output_path)
      [] OTHER -> Outcome(ConversionFailed(DebugKind(from_format),
                                           DebugKind(to_format)), f, <<>>)

\* <CameraParamsConverter as FormatConverter>::can_convert
cam_can_convert(from, to) ==
    from.cat = "CameraParameters" /\ to.cat = "CameraParameters"

\* <CameraParamsConverter as FormatConverter>::convert
cam_convert(f, input_path, output_path, from, to) ==
    IF from.cat = "CameraParameters" /\ to.cat = "CameraParameters"
    THEN convert_camera_params(f, input_path, output_path, from.kind, to.kind)
    ELSE Outcome(ConversionFailed(DebugFormat(from), DebugFormat(to)), f, <<>>)

(***************************************************************************)
(* core::data_manager::DataManager: its own copies of the point-cloud      *)
(* routines (data_manager.rs:190-439)                                      *)
(***************************************************************************)
dm_PlyHeader(n) ==
    << <<"ply">>,
       <<"format", " ", "ascii", " ", "1.0">>,
       <<"element", " ", "vertex", " ">> \o fmt_usize(n),
       <<"property", " ", "float", " ", "x">>,
       <<"property", " ", "float", " ", "y">>,
       <<"property", " ", "float", " ", "z">>,
       <<"end_header">> >>

dm_PcdHeader(n) ==
    << <<"#", " ", ".PCD", " ", "v0.7", " ", "-", " ", "Point", " ", "Cloud",
         " ", "Data", " ", "file", " ", "format">>,
       <<"VERSION", " ", "0.7">>,
       <<"FIELDS", " ", "x", " ", "y", " ", "z">>,
       <<"SIZE", " ", "4", " ", "4", " ", "4">>,
       <<"TYPE", " ", "F", " ", "F", " ", "F">>,
       <<"COUNT", " ", "1", " ", "1", " ", "1">>,
       <<"WIDTH", " ">> \o fmt_usize(n),
       <<"HEIGHT", " ", "1">>,
       <<"VIEWPOINT", " ", "0", " ", "0", " ", "0", " ", "1", " ", "0", " ",
         "0", " ", "0">>,
       <<"POINTS", " ">> \o fmt_usize(n),
       <<"DATA", " ", "ascii">> >>

\* The scan of a PLY input shared by DataManager::ply_to_xyz and ply_to_pcd: `emit` says
\* what an accepted row contributes to the output ("xyz": its first three
\* tokens; "raw": the line as read).  st.err is set when a
\* `line?` returned an error; st.rows are the rows accepted so far.
dm_PlyScanStart ==
    [in_vertex_data |-> FALSE, vertex_count |-> 0, processed_vertices |-> 0,
     rows |-> <<>>, err |-> FALSE]

dm_xyz_row(line) ==
    LET parts == split_whitespace(line)
    IN  parts[1] \o <<" ">> \o parts[2] \o <<" ">> \o parts[3]

dm_raw_row(line) == line

RECURSIVE dm_ply_scan(_, _, _, _)
dm_ply_scan(lines, i, st, emit) ==
    IF i > Len(lines) THEN st
    ELSE LET line == lines[i] IN
         IF IsReadError(line) THEN [st EXCEPT !.err = TRUE]
         ELSE IF starts_with(line, ElementVertexPrefix)
         THEN dm_ply_scan(lines, i + 1,
                       [st EXCEPT !.vertex_count = nth_usize_or_0(line, 2)], emit)
         ELSE IF line = EndHeader
         THEN dm_ply_scan(lines, i + 1, [st EXCEPT !.in_vertex_data = TRUE], emit)
         ELSE IF /\ st.in_vertex_data
                 /\ st.processed_vertices < st.vertex_count
                 /\ Len(split_whitespace(line)) >= 3
         THEN dm_ply_scan(lines, i + 1,
                       [st EXCEPT !.rows = Append(@, IF emit = "xyz" THEN dm_xyz_row(line)
                                                         ELSE dm_raw_row(line)),
                                  !.processed_vertices = @ + 1], emit)
         ELSE dm_ply_scan(lines, i + 1, st, emit)

dm_ply_to_xyz(f, input_path, output_path) ==
    IF ~CanOpen(f, input_path)
    THEN Outcome(IoError, f, <<>>)
    ELSE IF ~CanCreate(f, output_path)
    THEN Outcome(IoError, f, <<OpenEv(input_path)>>)
    ELSE LET log == <<OpenEv(input_path), CreateEv(output_path)>>
             f1 == Created(f, output_path)
         IN  IF ReadsFailForever(f[input_path]) THEN Outcome(IoError, f1, log)
             ELSE LET st == dm_ply_scan(LinesOf(f1[input_path]), 1, dm_PlyScanStart, "xyz")
                      f2 == Written(f1, output_path, st.rows)
                  IN  Outcome(IF st.err THEN IoError ELSE Ok, f2, log)

dm_ply_to_pcd(f, input_path, output_path) ==
    IF ~CanOpen(f, input_path)
    THEN Outcome(IoError, f, <<>>)
    ELSE IF ~CanCreate(f, output_path)
    THEN Outcome(IoError, f, <<OpenEv(input_path)>>)
    ELSE LET log == <<OpenEv(input_path), CreateEv(output_path)>>
             f1 == Created(f, output_path)
         IN  IF ReadsFailForever(f[input_path]) THEN Outcome(IoError, f1, log)
             ELSE LET st == dm_ply_scan(LinesOf(f1[input_path]), 1, dm_PlyScanStart, "raw")
                  IN  IF st.err THEN Outcome(IoError, f1, log)
                      ELSE Outcome(Ok,
                                   Written(f1, output_path,
                                           dm_PcdHeader(Len(st.rows)) \o st.rows),
                                   log)

\* The scan of a PCD input shared by DataManager::pcd_to_ply and pcd_to_xyz.  pcd_to_ply
\* also reads the POINTS field (`points`), which it only logs.
dm_PcdScanStart == [in_data |-> FALSE, vertex_count |-> 0, rows |-> <<>>, err |-> FALSE]

RECURSIVE dm_pcd_scan(_, _, _, _)
dm_pcd_scan(lines, i, st, points) ==
    IF i > Len(lines) THEN st
    ELSE LET line == lines[i] IN
         IF IsReadError(line) THEN [st EXCEPT !.err = TRUE]
         ELSE IF points /\ starts_with(line, PointsPrefix)
         THEN dm_pcd_scan(lines, i + 1,
                       [st EXCEPT !.vertex_count = nth_usize_or_0(line, 1)], points)
         ELSE IF line = DataAscii
         THEN dm_pcd_scan(lines, i + 1, [st EXCEPT !.in_data = TRUE], points)
         ELSE IF st.in_data /\ ~trim_is_empty(line)
         THEN dm_pcd_scan(lines, i + 1, [st EXCEPT !.rows = Append(@, line)], points)
         ELSE dm_pcd_scan(lines, i + 1, st, points)

dm_pcd_to_ply(f, input_path, output_path) ==
    IF ~CanOpen(f, input_path)
    THEN Outcome(IoError, f, <<>>)
    ELSE IF ~CanCreate(f, output_path)
    THEN Outcome(IoError, f, <<OpenEv(input_path)>>)
    ELSE LET log == <<OpenEv(input_path), CreateEv(output_path)>>
             f1 == Created(f, output_path)
         IN  IF ReadsFailForever(f[input_path]) THEN Outcome(IoError, f1, log)
             ELSE LET st == dm_pcd_scan(LinesOf(f1[input_path]), 1, dm_PcdScanStart, TRUE)
                  IN  IF st.err THEN Outcome(IoError, f1, log)
                      ELSE Outcome(Ok,
                                   Written(f1, output_path,
                                           dm_PlyHeader(Len(st.rows)) \o st.rows),
                                   log)

dm_pcd_to_xyz(f, input_path, output_path) ==
    IF ~CanOpen(f, input_path)
    THEN Outcome(IoError, f, <<>>)
    ELSE IF ~CanCreate(f, output_path)
    THEN Outcome(IoError, f, <<OpenEv(input_path)>>)
    ELSE LET log == <<OpenEv(input_path), CreateEv(output_path)>>
             f1 == Created(f, output_path)
         IN  IF ReadsFailForever(f[input_path]) THEN Outcome(IoError, f1, log)
             ELSE LET st == dm_pcd_scan(LinesOf(f1[input_path]), 1, dm_PcdScanStart, FALSE)
                  IN  Outcome(IF st.err THEN IoError ELSE Ok,
                              Written(f1, output_path, st.rows), log)

\* The second pass of DataManager::xyz_to_ply and xyz_to_pcd: the lines that are not
\* whitespace-only, up to the first read error.
RECURSIVE dm_copy_rows(_, _, _)
dm_copy_rows(lines, i, st) ==
    IF i > Len(lines) THEN st
    ELSE IF IsReadError(lines[i]) THEN [st EXCEPT !.err = TRUE]
    ELSE IF ~trim_is_empty(lines[i])
    THEN dm_copy_rows(lines, i + 1, [st EXCEPT !.rows = Append(@, lines[i])])
    ELSE dm_copy_rows(lines, i + 1, st)

\* reader.lines().count(): every item the iterator yields, errors included
dm_lines_count(lines) == Len(lines)

\* DataManager::xyz_to_ply and xyz_to_pcd differ only in the header they write.
dm_xyz_two_pass(f, input_path, output_path, target) ==
    IF ~CanOpen(f, input_path)
    THEN Outcome(IoError, f, <<>>)
    ELSE IF ReadsFailForever(f[input_path])
    THEN Outcome(NoReturn, f, <<OpenEv(input_path)>>)
    ELSE LET vertex_count == dm_lines_count(LinesOf(f[input_path]))
             log == <<OpenEv(input_path), OpenEv(input_path), CreateEv(output_path)>>
         IN  IF ~CanCreate(f, output_path)
             THEN Outcome(IoError, f, <<OpenEv(input_path), OpenEv(input_path)>>)
             ELSE LET f1 == Written(Created(f, output_path), output_path,
                                    IF target = "ply" THEN dm_PlyHeader(vertex_count)
                                                      ELSE dm_PcdHeader(vertex_count))
                      st == dm_copy_rows(LinesOf(f1[input_path]), 1,
                                      [rows |-> <<>>, err |-> FALSE])
                  IN  Outcome(IF st.err THEN IoError ELSE Ok,
                              Written(f1, output_path, st.rows), log)

dm_xyz_to_ply(f, input_path, output_path) ==
    dm_xyz_two_pass(f, input_path, output_path, "ply")

dm_xyz_to_pcd(f, input_path, output_path) ==
    dm_xyz_two_pass(f, input_path, output_path, "pcd")

(***************************************************************************)
(* DataManager: format resolution, dispatch, camera routines               *)
(***************************************************************************)
\* DataManager::parse_format
\* Mutant of dm_parse_format: the token is matched as given, in its own case
dm_parse_format_exact(format_str) == parse_format_exact(format_str)

dm_parse_format(format_str) ==
    LET name == to_lowercase(format_str)
    IN  CASE name = <<"p", "l", "y">> -> Resolved(PointCloud("PLY"), <<>>)
          [] name = <<"p", "c", "d">> -> Resolved(PointCloud("PCD"), <<>>)
          [] name = <<"x", "y", "z">> -> Resolved(PointCloud("XYZ"), <<>>)
          [] name = <<"l", "a", "z">> -> Resolved(PointCloud("LAZ"), <<>>)
          [] name = <<"c", "o", "l", "m", "a", "p">> ->
                Resolved(CameraParameters("COLMAP"), <<>>)
          [] name = <<"n", "e", "r", "f">> -> Resolved(CameraParameters("NeRF"), <<>>)
          [] name = <<"o", "p", "e", "n", "c", "v">> ->
                Resolved(CameraParameters("OpenCV"), <<>>)
          [] name = <<"b", "l", "e", "n", "d", "e", "r">> ->
                Resolved(CameraParameters("Blender"), <<>>)
          [] OTHER -> Unresolved(UnsupportedFormat(format_str), <<>>)

\* reader.lines().take(DmSniffLimit)
DmSniffLimit == 5

RECURSIVE dm_sniff(_, _)
dm_sniff(lines, i) ==
    IF i > Len(lines) \/ i > DmSniffLimit THEN "no"
    ELSE IF IsReadError(lines[i]) THEN "error"
    ELSE IF contains(lines[i], CameraListMarker) \/ contains(lines[i], ImageListMarker)
    THEN "yes"
    ELSE dm_sniff(lines, i + 1)

\* DataManager::looks_like_camera_params
dm_looks_like_camera_params(f, path) ==
    IF ~CanOpen(f, path) THEN [res |-> IoError, value |-> FALSE, log |-> <<>>]
    ELSE LET log == <<OpenEv(path)>>
             found == dm_sniff(LinesOf(f[path]), 1)
         IN  IF ReadsFailForever(f[path]) \/ found = "error"
             THEN [res |-> IoError, value |-> FALSE, log |-> log]
             ELSE [res |-> Ok, value |-> (found = "yes"), log |-> log]

\* DataManager::detect_format
dm_detect_format(f, path) ==
    LET extension == extension_or_empty(path)
        ext == to_lowercase(extension)
    IN  CASE ext = <<"p", "l", "y">> -> Resolved(PointCloud("PLY"), <<>>)
          [] ext = <<"p", "c", "d">> -> Resolved(PointCloud("PCD"), <<>>)
          [] ext = <<"x", "y", "z">> -> Resolved(PointCloud("XYZ"), <<>>)
          [] ext = <<"l", "a", "z">> -> Resolved(PointCloud("LAZ"), <<>>)
          [] ext = <<"t", "x", "t">> ->
                LET looks == dm_looks_like_camera_params(f, path)
                IN  IF looks.res # Ok THEN Unresolved(looks.res, looks.log)
                    ELSE IF looks.value
                    THEN Resolved(CameraParameters("COLMAP"), looks.log)
                    ELSE Resolved(PointCloud("XYZ"), looks.log)
          [] ext = <<"j", "s", "o", "n">> -> Resolved(CameraParameters("NeRF"), <<>>)
          [] OTHER -> Unresolved(UnsupportedFormat(extension), <<>>)

\* Mutant of dm_convert_point_cloud: the output file is created before the
\* pair is looked at
dm_convert_point_cloud_creates(f, input_path, output_path, input_format, output_format) ==
    LET f1 == IF CanCreate(f, output_path) THEN Created(f, output_path) ELSE f
    IN  CASE input_format = "PLY" /\ output_format = "XYZ" ->
                dm_ply_to_xyz(f, input_path, output_path)
          [] input_format = "XYZ" /\ output_format = "PLY" ->
                dm_xyz_to_ply(f, input_path, output_path)
          [] input_format = "PLY" /\ output_format = "PCD" ->
                dm_ply_to_pcd(f, input_path, output_path)
          [] input_format = "PCD" /\ output_format = "PLY" ->
                dm_pcd_to_ply(f, input_path, output_path)
          [] input_format = "XYZ" /\ output_format = "PCD" ->
                dm_xyz_to_pcd(f, input_path, output_path)
          [] input_format = "PCD" /\ output_format = "XYZ" ->
                dm_pcd_to_xyz(f, input_path, output_path)
          [] OTHER -> Outcome(ConversionFailed(DebugKind(input_format),
                                               DebugKind(output_format)),
                              f1, <<CreateEv(output_path)>>)

\* DataManager::convert_point_cloud
dm_convert_point_cloud(f, input_path, output_path, input_format, output_format) ==
    CASE input_format = "PLY" /\ output_format = "XYZ" ->
            dm_ply_to_xyz(f, input_path, output_path)
      [] input_format = "XYZ" /\ output_format = "PLY" ->
            dm_xyz_to_ply(f, input_path, output_path)
      [] input_format = "PLY" /\ output_format = "PCD" ->
            dm_ply_to_pcd(f, input_path, output_path)
      [] input_format = "PCD" /\ output_format = "PLY" ->
            dm_pcd_to_ply(f, input_path, output_path)
      [] input_format = "XYZ" /\ output_format = "PCD" ->
            dm_xyz_to_pcd(f, input_path, output_path)
      [] input_format = "PCD" /\ output_format = "XYZ" ->
            dm_pcd_to_xyz(f, input_path, output_path)
      [] OTHER -> Outcome(ConversionFailed(DebugKind(input_format),
                                           DebugKind(output_format)), f, <<>>)

\* DataManager::colmap_to_nerf: logs "not yet implemented" and returns Ok
dm_colmap_to_nerf(f, input_path, output_path) == Outcome(Ok, f, <<>>)

\* DataManager::nerf_to_colmap: logs "not yet implemented" and returns Ok
dm_nerf_to_colmap(f, input_path, output_path) == Outcome(Ok, f, <<>>)

\* DataManager::convert_camera_params
dm_convert_camera_params(f, input_path, output_path, input_format, output_format) ==
    CASE input_format = "COLMAP" /\ output_format = "NeRF" ->
            dm_colmap_to_nerf(f, input_path, output_path)
      [] input_format = "NeRF" /\ output_format = "COLMAP" ->
            dm_nerf_to_colmap(f, input_path, output_path)
      [] OTHER -> Outcome(ConversionFailed(DebugKind(input_format),
                                           DebugKind(output_format)), f, <<>>)

None == [some |-> FALSE]
Some(v) == [some |-> TRUE, value |-> v]

\* Mutant of convert_file: the output format is resolved before the input
\* format
convert_file_output_first(f, input, output, input_format, output_format) ==
    LET finish(done, log, i, o) ==
            [out |-> Outcome(done.res, done.fs, log \o done.log),
             resolved |-> <<i, o>>]
        dispatch(i, o, log) ==
            finish(CASE i.cat = "PointCloud" /\ o.cat = "PointCloud" ->
                          dm_convert_point_cloud(f, input, output, i.kind, o.kind)
                     [] i.cat = "CameraParameters" /\ o.cat = "CameraParameters" ->
                          dm_convert_camera_params(f, input, output, i.kind, o.kind)
                     [] OTHER ->
                          Outcome(ConversionFailed(DebugFormat(i), DebugFormat(o)),
                                  f, <<>>),
                   log, i, o)
        resolve(input_fmt, output_fmt) ==
            IF ~output_fmt.ok
            THEN [out |-> Outcome(output_fmt.err, f, <<>>), resolved |-> <<>>]
            ELSE IF ~input_fmt.ok
            THEN [out |-> Outcome(input_fmt.err, f, input_fmt.log),
                  resolved |-> <<>>]
            ELSE dispatch(input_fmt.fmt, output_fmt.fmt, input_fmt.log)
    IN  resolve(IF input_format.some THEN dm_parse_format(input_format.value)
                ELSE dm_detect_format(f, input),
                dm_parse_format(output_format))

\* Mutant of convert_file: the input path is always run through
\* detect_format, also when the input format is named
convert_file_always_detects(f, input, output, input_format, output_format) ==
    LET finish(done, log, i, o) ==
            [out |-> Outcome(done.res, done.fs, log \o done.log),
             resolved |-> <<i, o>>]
        dispatch(i, o, log) ==
            finish(CASE i.cat = "PointCloud" /\ o.cat = "PointCloud" ->
                          dm_convert_point_cloud(f, input, output, i.kind, o.kind)
                     [] i.cat = "CameraParameters" /\ o.cat = "CameraParameters" ->
                          dm_convert_camera_params(f, input, output, i.kind, o.kind)
                     [] OTHER ->
                          Outcome(ConversionFailed(DebugFormat(i), DebugFormat(o)),
                                  f, <<>>),
                   log, i, o)
        resolve(input_fmt, output_fmt, log) ==
            IF ~input_fmt.ok
            THEN [out |-> Outcome(input_fmt.err, f, log), resolved |-> <<>>]
            ELSE IF ~output_fmt.ok
            THEN [out |-> Outcome(output_fmt.err, f, log),
                  resolved |-> <<input_fmt.fmt>>]
            ELSE dispatch(input_fmt.fmt, output_fmt.fmt, log)
        detect(detected) ==
            resolve(IF input_format.some THEN dm_parse_format(input_format.value)
                    ELSE detected,
                    dm_parse_format(output_format), detected.log)
    IN  detect(dm_detect_format(f, input))

\* DataManager::convert_file.  Besides the outcome it reports the formats it
\* resolved (the ones its "Converting .. to .." log line prints).
convert_file(f, input, output, input_format, output_format) ==
    LET finish(done, log, i, o) ==
            [out |-> Outcome(done.res, done.fs, log \o done.log),
             resolved |-> <<i, o>>]
        dispatch(i, o, log) ==
            finish(CASE i.cat = "PointCloud" /\ o.cat = "PointCloud" ->
                          dm_convert_point_cloud(f, input, output, i.kind, o.kind)
                     [] i.cat = "CameraParameters" /\ o.cat = "CameraParameters" ->
                          dm_convert_camera_params(f, input, output, i.kind, o.kind)
                     [] OTHER ->
                          Outcome(ConversionFailed(DebugFormat(i), DebugFormat(o)),
                                  f, <<>>),
                   log, i, o)
        resolve(input_fmt, output_fmt) ==
            IF ~input_fmt.ok
            THEN [out |-> Outcome(input_fmt.err, f, input_fmt.log),
                  resolved |-> <<>>]
            ELSE IF ~output_fmt.ok
            THEN [out |-> Outcome(output_fmt.err, f, input_fmt.log),
                  resolved |-> <<input_fmt.fmt>>]
            ELSE dispatch(input_fmt.fmt, output_fmt.fmt, input_fmt.log)
    IN  resolve(IF input_format.some THEN dm_parse_format(input_format.value)
                ELSE dm_detect_format(f, input),
                dm_parse_format(output_format))

(***************************************************************************)
(* Specification SpecPC: PointCloudConverter::convert on every input file  *)
(* of up to MaxLines lines, and a second conversion of what the first      *)
(* wrote.                                                                  *)
(***************************************************************************)
Row3 == <<"1", " ", "2", " ", "3">>
Row4 == <<" ", "4", " ", " ", "5", "\t", "6", " ", "c">>
Row2 == <<"7", " ", "8">>
Blank == <<>>
Spaces == <<" ", "\t">>
ElementVertex(n) == ElementVertexPrefix \o <<" ">> \o fmt_usize(n)
Points(n) == PointsPrefix \o <<" ">> \o fmt_usize(n)

\* The lines an input of each kind is made of
InputLines(kind) ==
    CASE kind = "PLY" -> {ElementVertex(1), ElementVertex(2), EndHeader,
                          Row3, Row4, Row2, Blank}
      [] kind = "XYZ" -> {Row3, Row4, Row2, Blank, Spaces}
      [] kind = "PCD" -> {Points(1), DataAscii, Row3, Row4, Blank, Spaces}

FilesOver(lines, n) == UNION {[1..k -> lines] : k \in 0..n}

InputKinds == {"PLY", "XYZ", "PCD"}

PcPaths == {"in", "mid", "out"}

PcInit ==
    /\ \E kind \in InputKinds :
         \E content \in FilesOver(InputLines(kind), MaxLines) :
            fs = [p \in PcPaths |-> IF p = "in" THEN TextFile(content) ELSE NoFile]
    /\ pre = fs
    /\ hist = <<>>

Call(op, input_path, output_path, from, to, out) ==
    [op |-> op, input |-> input_path, output |-> output_path,
     from |-> from, to |-> to, res |-> out.res, log |-> out.log]

\* The caller names the format the input is written in.
IsInputOf(obj, kind) ==
    /\ obj.kind = "text"
    /\ \A i \in 1..Len(obj.lines) : obj.lines[i] \in InputLines(kind)

\* A first conversion, of the input file
PcConvertInput(from, to) ==
    /\ hist = <<>>
    /\ IsInputOf(fs["in"], from.kind)
    /\ LET out == pc_convert(fs, "in", "mid", from, to)
       IN  /\ fs' = out.fs
           /\ pre' = fs
           /\ hist' = Append(hist, Call("PointCloudConverter::convert",
                                        "in", "mid", from, to, out))

\* A second conversion, of the file the first one wrote
PcConvertOutput(to) ==
    /\ Len(hist) = 1
    /\ hist[1].res = Ok
    /\ LET out == pc_convert(fs, "mid", "out", hist[1].to, to)
       IN  /\ fs' = out.fs
           /\ pre' = fs
           /\ hist' = Append(hist, Call("PointCloudConverter::convert",
                                        "mid", "out", hist[1].to, to, out))

PcNext ==
    \/ \E from \in InputKinds, to \in PointCloudKinds :
         PcConvertInput(PointCloud(from), PointCloud(to))
    \/ \E to \in PointCloudKinds : PcConvertOutput(PointCloud(to))

SpecPC == PcInit /\ [][PcNext]_vars

(***************************************************************************)
(* Reading the files the claims speak of.                                  *)
(***************************************************************************)
Last == hist[Len(hist)]

Min(a, b) == IF a < b THEN a ELSE b

\* Index of the first line equal to `marker`, 0 when there is none
FirstIndex(lines, marker) ==
    IF \E i \in 1..Len(lines) : lines[i] = marker
    THEN CHOOSE i \in 1..Len(lines) :
            lines[i] = marker /\ \A j \in 1..(i - 1) : lines[j] # marker
    ELSE 0

\* The lines before and after the first `marker` line
HeaderPart(lines, marker) ==
    IF FirstIndex(lines, marker) = 0 THEN lines
    ELSE SubSeq(lines, 1, FirstIndex(lines, marker) - 1)

DataPart(lines, marker) ==
    IF FirstIndex(lines, marker) = 0 THEN <<>>
    ELSE SubSeq(lines, FirstIndex(lines, marker) + 1, Len(lines))

\* The number a header declares on its (only) line starting with `key`
Declares(header, key, n) ==
    /\ Cardinality({i \in 1..Len(header) : starts_with(header[i], key)}) = 1
    /\ \E i \in 1..Len(header) :
          /\ starts_with(header[i], key)
          /\ split_whitespace(header[i]) = split_whitespace(key) \o <<fmt_usize(n)>>

NonBlank(lines) == SelectSeq(lines, LAMBDA l : ~trim_is_empty(l))

HasThreeTokens(line) == Len(split_whitespace(line)) >= 3

FirstThreeTokens(line) ==
    LET t == split_whitespace(line)
    IN  t[1] \o <<" ">> \o t[2] \o <<" ">> \o t[3]

IsPrefix(a, b) == Len(a) <= Len(b) /\ a = SubSeq(b, 1, Len(a))

IsPlyKeyword(line) == starts_with(line, ElementVertexPrefix) \/ line = EndHeader
IsPcdKeyword(line) == starts_with(line, PointsPrefix) \/ line = DataAscii

\* A PLY input that declares n vertices: one `element vertex n` line, in the
\* header, and no header line among the data lines
PlyDeclares(lines, n) ==
    /\ FirstIndex(lines, EndHeader) > 0
    /\ Declares(HeaderPart(lines, EndHeader), ElementVertexPrefix, n)
    /\ \A i \in 1..Len(DataPart(lines, EndHeader)) :
          ~IsPlyKeyword(DataPart(lines, EndHeader)[i])

LastIs(from, to) ==
    /\ hist # <<>>
    /\ Last.op = "PointCloudConverter::convert"
    /\ Last.from = PointCloud(from)
    /\ Last.to = PointCloud(to)
    /\ Last.res = Ok

InputLinesOfLast == pre[Last.input].lines
OutputLinesOfLast == fs[Last.output].lines

(***************************************************************************)
(* C4.  In every PCD file written by a successful PLY->PCD or XYZ->PCD     *)
(* conversion the WIDTH value, the POINTS value and the number of rows     *)
(* after `DATA ascii` are equal.                                           *)
(***************************************************************************)
C4_PcdCountsEqualRows ==
    (LastIs("PLY", "PCD") \/ LastIs("XYZ", "PCD")) =>
        LET header == HeaderPart(OutputLinesOfLast, DataAscii)
            rows == DataPart(OutputLinesOfLast, DataAscii)
        IN  /\ Declares(header, <<"WIDTH">>, Len(rows))
            /\ Declares(header, <<"POINTS">>, Len(rows))

(***************************************************************************)
(* C5.  In XYZ->PLY the count of the `element vertex` header line is the   *)
(* number of input lines that are not whitespace-only, and exactly those   *)
(* lines are the data rows, verbatim and in input order.                   *)
(***************************************************************************)
C5_XyzToPlyCountsNonBlank ==
    LastIs("XYZ", "PLY") =>
        /\ Declares(HeaderPart(OutputLinesOfLast, EndHeader), ElementVertexPrefix,
                    Len(NonBlank(InputLinesOfLast)))
        /\ DataPart(OutputLinesOfLast, EndHeader) = NonBlank(InputLinesOfLast)

(***************************************************************************)
(* C6.  PLY->XYZ followed by XYZ->PLY of the result: the final `element    *)
(* vertex` count is the number of non-blank rows of the intermediate XYZ   *)
(* file, and it is N when the PLY declared N and held N rows of at least   *)
(* three tokens.                                                           *)
(***************************************************************************)
IsRoundTrip ==
    /\ Len(hist) = 2
    /\ hist[1].res = Ok /\ hist[1].from = PointCloud("PLY") /\ hist[1].to = PointCloud("XYZ")
    /\ hist[2].res = Ok /\ hist[2].from = PointCloud("XYZ") /\ hist[2].to = PointCloud("PLY")
    /\ hist[2].input = hist[1].output

HoldsRows(lines, n) ==
    Len(SelectSeq(DataPart(lines, EndHeader), HasThreeTokens)) = n

C6_RoundTripRowCount ==
    IsRoundTrip =>
        LET original == fs[hist[1].input].lines
            middle == fs[hist[2].input].lines
            final == fs[hist[2].output].lines
        IN  /\ Declares(HeaderPart(final, EndHeader), ElementVertexPrefix,
                        Len(NonBlank(middle)))
            /\ \A n \in 0..MaxLines :
                  PlyDeclares(original, n) /\ HoldsRows(original, n) =>
                     Declares(HeaderPart(final, EndHeader), ElementVertexPrefix, n)

C6_Witness ==
    /\ IsRoundTrip
    /\ PlyDeclares(fs[hist[1].input].lines, 2)
    /\ HoldsRows(fs[hist[1].input].lines, 2)
    /\ Len(DataPart(fs[hist[2].output].lines, EndHeader)) = 2

(***************************************************************************)
(* C7.  PLY->XYZ on an input whose header declares `element vertex N` and  *)
(* whose N lines after `end_header` each hold at least three tokens writes *)
(* exactly N lines; line i is the first three tokens of data line i joined *)
(* by single spaces.                                                       *)
(***************************************************************************)
C7_PlyToXyzRows ==
    LastIs("PLY", "XYZ") =>
        \A n \in 0..MaxLines :
            LET data == DataPart(InputLinesOfLast, EndHeader)
            IN  (/\ PlyDeclares(InputLinesOfLast, n)
                 /\ Len(data) >= n
                 /\ \A i \in 1..n : HasThreeTokens(data[i]))
                => /\ Len(OutputLinesOfLast) = n
                   /\ \A i \in 1..n : OutputLinesOfLast[i] = FirstThreeTokens(data[i])

C7_Witness ==
    /\ LastIs("PLY", "XYZ")
    /\ PlyDeclares(InputLinesOfLast, 2)
    /\ DataPart(InputLinesOfLast, EndHeader) = <<Row3, Row4>>
    /\ OutputLinesOfLast = <<Row3, <<"4", " ", "5", " ", "6">> >>

(***************************************************************************)
(* C8.  In PLY->XYZ and PLY->PCD with declared vertex count N only the     *)
(* first N lines that follow `end_header` can be emitted.                  *)
(***************************************************************************)
\* What the rows of the output are, as input lines would produce them
EmittedAs(lines) ==
    IF Last.to = PointCloud("XYZ")
    THEN [i \in 1..Len(lines) |-> FirstThreeTokens(lines[i])]
    ELSE lines

OutputRowsOfLast ==
    IF Last.to = PointCloud("XYZ") THEN OutputLinesOfLast
    ELSE DataPart(OutputLinesOfLast, DataAscii)

\* The claim as stated: the rows written come from the first N lines after
\* `end_header`.
C8_OnlyFirstNLines ==
    (LastIs("PLY", "XYZ") \/ LastIs("PLY", "PCD")) =>
        \A n \in 0..MaxLines :
            PlyDeclares(InputLinesOfLast, n) =>
                LET data == DataPart(InputLinesOfLast, EndHeader)
                    firstN == SubSeq(data, 1, Min(n, Len(data)))
                IN  IsPrefix(OutputRowsOfLast,
                             EmittedAs(SelectSeq(firstN, HasThreeTokens)))

\* C8 as amended: the rows written are the first N of the lines after
\* `end_header` that hold at least three tokens (a line with fewer tokens is
\* skipped and does not count towards N); so at most N rows are written, the
\* lines after the N-th such row are ignored, and an input with fewer than N
\* such rows yields fewer rows and still succeeds.
C8_OnlyFirstNRows ==
    (LastIs("PLY", "XYZ") \/ LastIs("PLY", "PCD")) =>
        \A n \in 0..MaxLines :
            PlyDeclares(InputLinesOfLast, n) =>
                LET rows == SelectSeq(DataPart(InputLinesOfLast, EndHeader),
                                      HasThreeTokens)
                IN  /\ OutputRowsOfLast = EmittedAs(SubSeq(rows, 1, Min(n, Len(rows))))
                    /\ Len(OutputRowsOfLast) <= n

C8_Witness ==
    /\ LastIs("PLY", "PCD")
    /\ PlyDeclares(InputLinesOfLast, 1)
    /\ DataPart(InputLinesOfLast, EndHeader) = <<Row4, Row3>>
    /\ OutputRowsOfLast = <<Row4>>

(***************************************************************************)
(* C9.  In PCD->PLY the emitted `element vertex` count is the number of    *)
(* non-blank lines after the `DATA ascii` marker line, whatever the        *)
(* POINTS field declares, and those lines are the data rows, verbatim and  *)
(* in input order.  (A line after the marker is a data line unless it is   *)
(* itself a `POINTS` or `DATA ascii` line.)                                *)
(***************************************************************************)
PcdDataLines(lines) ==
    SelectSeq(NonBlank(DataPart(lines, DataAscii)), LAMBDA l : ~IsPcdKeyword(l))

CameraListLine == CameraListMarker \o <<" ", "with", " ", "one", " ", "line">>
ImageListInside == <<"x", " ">> \o ImageListMarker
NearMarker == <<"#", "Camera", " ", "list">>

SniffedLines == {CameraListLine, ImageListInside, NearMarker, Row3}

DetectInit ==
    /\ \E content \in FilesOver(SniffedLines, MaxSniffLines) :
          fs = [p \in {"scan.txt", "out"} |->
                   IF p = "scan.txt" THEN TextFile(content) ELSE NoFile]
    /\ pre = fs
    /\ hist = <<>>

\* formats::detect_format(path)
DetectFormat(path) ==
    /\ hist = <<>>
    /\ LET d == detect_format(fs, path)
       IN  /\ hist' = <<[op |-> "detect_format", input |-> path,
                         res |-> IF d.ok THEN Ok ELSE d.err,
                         resolved |-> IF d.ok THEN <<d.fmt>> ELSE <<>>,
                         log |-> d.log]>>
           /\ pre' = fs
           /\ fs' = fs

\* DataManager::convert_file(input, output, input_format, output_format)
ConvertFile(input, output, input_format, output_format) ==
    /\ hist = <<>>
    /\ LET r == convert_file(fs, input, output, input_format, output_format)
       IN  /\ hist' = <<[op |-> "convert_file", input |-> input, output |-> output,
                         input_format |-> input_format,
                         output_format |-> output_format,
                         res |-> r.out.res, resolved |-> r.resolved,
                         log |-> r.out.log]>>
           /\ pre' = fs
           /\ fs' = r.out.fs

DetectNext ==
    \/ DetectFormat("scan.txt")
    \/ \E output_format \in {<<"p", "l", "y">>, <<"n", "e", "r", "f">>} :
          ConvertFile("scan.txt", "out", None, output_format)

SpecDetect == DetectInit /\ [][DetectNext]_vars

(***************************************************************************)
(* C10.  detect_format on a path with extension `txt` returns              *)
(* CameraParameters(COLMAP) iff one of the first 5 lines of the file       *)
(* contains `# Camera list` or `# Image list`, and PointCloud(XYZ)         *)
(* otherwise; a marker first appearing on line 6 or later does not count.  *)
(***************************************************************************)
HasMarker(line) ==
    \/ contains(line, <<"#", " ", "Camera", " ", "list">>)
    \/ contains(line, <<"#", " ", "Image", " ", "list">>)

MarkerInFirstFive(lines) == \E i \in 1..Min(5, Len(lines)) : HasMarker(lines[i])

DetectedTxt ==
    /\ hist # <<>>
    /\ \/ Last.op = "detect_format"
       \/ Last.op = "convert_file" /\ ~Last.input_format.some
    /\ extension_or_empty(Last.input) = <<"t", "x", "t">>
    /\ pre[Last.input].kind = "text"

C10_TxtSniffFirstFiveLines ==
    DetectedTxt =>
        /\ Len(Last.resolved) >= 1
        /\ Last.resolved[1] =
              IF MarkerInFirstFive(pre[Last.input].lines)
              THEN CameraParameters("COLMAP")
              ELSE PointCloud("XYZ")

C10_Witness ==
    /\ DetectedTxt
    /\ Last.op = "detect_format"
    /\ Len(pre[Last.input].lines) = 6
    /\ HasMarker(pre[Last.input].lines[6])
    /\ ~MarkerInFirstFive(pre[Last.input].lines)
    /\ Last.resolved = <<PointCloud("XYZ")>>

(***************************************************************************)
(* Specification Spec: one request to DataManager::convert_file, or one    *)
(* direct call of CameraParamsConverter::convert, on a working directory   *)
(* holding a file of each kind.                                            *)
(***************************************************************************)
SamplePly == << <<"ply">>, ElementVertex(2), EndHeader, Row3, Row4 >>
SamplePcd == << Points(2), DataAscii, Row3, Row4 >>
SampleXyz == << Row3, Blank, Row4 >>

\* 1 PINHOLE 640 480 500 500 320 240
\* 2 SIMPLE_PINHOLE 800 600 400 400 300
SampleCameras ==
    CamerasHeader
    \o << JoinTokens(<<fmt_usize(1), <<"PINHOLE">>, fmt_usize(640), fmt_usize(480),
                       fmt_usize(500), fmt_usize(500), fmt_usize(320),
                       fmt_usize(240)>>),
          JoinTokens(<<fmt_usize(2), <<"SIMPLE_PINHOLE">>, fmt_usize(800),
                       fmt_usize(600), fmt_usize(400), fmt_usize(400),
                       fmt_usize(300)>>) >>

\* 1 1 0 0 0 1 2 3 1 a.png
\* 2 0.8 0.6 0 0 0 0 -1 1 b.png
SampleImages ==
    ImagesHeader
    \o << JoinTokens(<<fmt_usize(1), <<"1">>, <<"0">>, <<"0">>, <<"0">>,
                       <<"1">>, <<"2">>, <<"3">>, fmt_usize(1), <<"a.png">> >>),
          Blank,
          JoinTokens(<<fmt_usize(2), <<"0", ".", "8">>, <<"0", ".", "6">>, <<"0">>,
                       <<"0">>, <<"0">>, <<"0">>, <<"-", "1">>, fmt_usize(1),
                       <<"b.png">> >>),
          Blank >>

SampleNerf ==
    [camera_angle_x |-> Rat(3, 5),
     frames |->
        << [file_path |-> <<"b.png">>, rotation |-> F(0),
            transform_matrix |->
               quaternion_to_matrix(Rat(4, 5), Rat(3, 5), F(0), F(0),
                                    F(1), F(2), F(-3))] >>]

\* No frame, and a camera_angle_x of another form
EmptyNerf == [camera_angle_x |-> [two_atan_of |-> Rat(16, 25)], frames |-> <<>>]

SpecInputs ==
    {"cloud.ply", "CLOUD.PLY", "cloud.pcd", "cloud.xyz", "tile.laz", "scan.txt",
     "transforms.json", "mesh.obj", "sparse"}

SpecPaths ==
    SpecInputs \cup {"sparse/cameras.txt", "sparse/images.txt",
                     "out", "out/cameras.txt", "out/images.txt"}

FormatTokens ==
    {<<"p", "l", "y">>,
     <<"P", "L", "Y">>,
     <<"p", "c", "d">>,
     <<"x", "y", "z">>,
     <<"l", "a", "z">>,
     <<"c", "o", "l", "m", "a", "p">>,
     <<"n", "e", "r", "f">>,
     <<"N", "e", "R", "F">>,
     <<"o", "p", "e", "n", "c", "v">>,
     <<"b", "l", "e", "n", "d", "e", "r">>,
     <<"o", "b", "j">>}

DataFormats ==
    {PointCloud(k) : k \in PointCloudKinds} \cup {CameraParameters(k) : k \in CameraKinds}

Init ==
    /\ \E scan \in {TextFile(<<Row3, Row4>>), TextFile(SampleCameras), NoFile},
          out \in {NoFile, TextFile(<<Row2>>), Directory},
          cameras \in {TextFile(SampleCameras), TextFile(CamerasHeader)},
          images \in {TextFile(SampleImages), NoFile},
          transforms \in {JsonFile(SampleNerf), JsonFile(EmptyNerf),
                         TextFile(<< <<"{">> >>)} :
          fs = [p \in SpecPaths |->
                  CASE p \in {"cloud.ply", "CLOUD.PLY"} -> TextFile(SamplePly)
                    [] p = "cloud.pcd" -> TextFile(SamplePcd)
                    [] p = "cloud.xyz" -> TextFile(SampleXyz)
                    [] p = "tile.laz" -> TextFile(<< <<InvalidUtf8>> >>)
                    [] p = "scan.txt" -> scan
                    [] p = "transforms.json" -> transforms
                    [] p = "mesh.obj" -> TextFile(<<Row3>>)
                    [] p = "sparse" -> Directory
                    [] p = "sparse/cameras.txt" -> cameras
                    [] p = "sparse/images.txt" -> images
                    [] p = "out" -> out
                    [] OTHER -> NoFile]
    /\ pre = fs
    /\ hist = <<>>

\* <CameraParamsConverter as FormatConverter>::convert(input, output, from, to)
CameraConvert(input_path, output_path, from, to) ==
    /\ hist = <<>>
    /\ LET out == cam_convert(fs, input_path, output_path, from, to)
       IN  /\ fs' = out.fs
           /\ pre' = fs
           /\ hist' = <<Call("CameraParamsConverter::convert",
                             input_path, output_path, from, to, out)>>

Next ==
    \/ \E input \in SpecInputs, output_format \in FormatTokens :
          \/ ConvertFile(input, "out", None, output_format)
          \/ \E input_format \in FormatTokens :
                ConvertFile(input, "out", Some(input_format), output_format)
    \/ \E input_path \in {"sparse", "transforms.json", "scan.txt"},
          from \in DataFormats, to \in DataFormats :
          CameraConvert(input_path, "out", from, to)

Spec == Init /\ [][Next]_vars

ConvertFileDone == hist # <<>> /\ Last.op = "convert_file"

BothResolved == ConvertFileDone /\ Len(Last.resolved) = 2

(***************************************************************************)
(* C1.  A convert_file request whose resolved formats are not an           *)
(* implemented pair (a pair involving LAZ, COLMAP with Blender either way, *)
(* PLY->PLY, PCD->PCD, a point-cloud format with a camera format) returns  *)
(* ConversionFailed, and no file is created or truncated at output_path    *)
(* (nor anywhere else).                                                    *)
(***************************************************************************)
NotImplementedPair(i, o) ==
    \/ i.cat # o.cat
    \/ i.kind = "LAZ" \/ o.kind = "LAZ"
    \/ {i.kind, o.kind} = {"COLMAP", "Blender"}
    \/ i = o /\ i.kind \in {"PLY", "PCD"}

C1_UnsupportedPairRejected ==
    (BothResolved /\ NotImplementedPair(Last.resolved[1], Last.resolved[2])) =>
        /\ Last.res.tag = "ConversionFailed"
        /\ fs[Last.output] = pre[Last.output]
        /\ fs = pre

C1_Witness ==
    /\ BothResolved
    /\ Last.resolved = <<PointCloud("PLY"), PointCloud("LAZ")>>
    /\ pre[Last.output] = TextFile(<<Row2>>)
    /\ Last.res.tag = "ConversionFailed"
    /\ fs[Last.output] = TextFile(<<Row2>>)

(***************************************************************************)
(* C2.  When convert_file rejects a request for a category mismatch or an  *)
(* unhandled kind pair, no file was opened during the call: not the input  *)
(* (to read or to sniff it), not the output, whether the input format was  *)
(* given or detected.                                                      *)
(***************************************************************************)
Rejected == BothResolved /\ Last.res.tag = "ConversionFailed"

C2_RejectionOpensNoFile == Rejected => Last.log = <<>>

\* C2 as amended: on such a rejection the output was never opened; the input
\* was opened exactly once, to be sniffed, when its format was detected from
\* a txt extension, and not at all otherwise.
SniffedInput ==
    /\ ~Last.input_format.some
    /\ to_lowercase(extension_or_empty(Last.input)) = <<"t", "x", "t">>

C2_RejectionOpensOnlySniffedInput ==
    Rejected =>
        /\ Last.log = IF SniffedInput THEN <<OpenEv(Last.input)>> ELSE <<>>
        /\ fs = pre

C2_Witness ==
    /\ Rejected
    /\ SniffedInput
    /\ Last.resolved[1] = PointCloud("XYZ")
    /\ Last.resolved[2].cat = "CameraParameters"
    /\ Last.log = <<OpenEv(Last.input)>>

(***************************************************************************)
(* C3.  When both resolved formats are CameraParameters, convert_file      *)
(* returns the result and leaves the files that                            *)
(* CameraParamsConverter::convert returns and leaves for the same paths    *)
(* and kinds.                                                              *)
(***************************************************************************)
CameraPair ==
    /\ BothResolved
    /\ Last.resolved[1].cat = "CameraParameters"
    /\ Last.resolved[2].cat = "CameraParameters"

C3_CameraPairsDelegate ==
    CameraPair =>
        LET delegate == cam_convert(pre, Last.input, Last.output,
                                    Last.resolved[1], Last.resolved[2])
        IN  /\ Last.res = delegate.res
            /\ fs = delegate.fs


(***************************************************************************)
(* Specification SpecFormats: format resolution.  detect_format and        *)
(* parse_format (those of formats/mod.rs and those of DataManager) on      *)
(* paths of every extension and on tokens of every casing, and requests to *)
(* DataManager::convert_file with and without an input format name.        *)
(***************************************************************************)
FormatNames ==
    {<<"p", "l", "y">>, <<"p", "c", "d">>, <<"x", "y", "z">>, <<"l", "a", "z">>,
     <<"c", "o", "l", "m", "a", "p">>, <<"n", "e", "r", "f">>,
     <<"o", "p", "e", "n", "c", "v">>, <<"b", "l", "e", "n", "d", "e", "r">>}

Upper(a) ==
    IF \E k \in 1..Len(Lowercase) : Lowercase[k] = a
    THEN Uppercase[CHOOSE k \in 1..Len(Lowercase) : Lowercase[k] = a]
    ELSE a

\* Every way of writing a lowercase name in upper and lower case
Casings(name) ==
    {[i \in 1..Len(name) |-> IF i \in up THEN Upper(name[i]) ELSE name[i]] :
        up \in SUBSET (1..Len(name))}

\* Tokens that name no format
OtherTokens ==
    {<<>>, <<"o", "b", "j">>, <<"O", "B", "J">>, <<"p", "l", "y", " ">>,
     <<"l", "a", "s">>, <<"t", "x", "t">>, <<"j", "s", "o", "n">>,
     <<"c", "u", "s", "t", "o", "m">>, <<"l", "l", "f", "f">>,
     <<"n", "e", "r", "f", "s", "y", "n", "t", "h", "e", "t", "i", "c">>}

ParsedTokens == UNION {Casings(name) : name \in FormatNames} \cup OtherTokens

DetectedPaths ==
    {"cloud.ply", "CLOUD.PLY", "cloud.pcd", "cloud.xyz", "tile.laz",
     "transforms.json", "mesh.obj", "MESH.Obj", "sparse", "scan.txt"}

OutputPaths == {"out", "out.ply"}

RequestInputs == {"cloud.xyz", "scan.txt", "mesh.obj", "transforms.json"}

RequestTokens ==
    {<<"p", "l", "y">>, <<"X", "Y", "Z">>, <<"n", "e", "r", "f">>,
     <<"c", "o", "l", "m", "a", "p">>, <<"o", "b", "j">>, <<"t", "x", "t">>}

\* Every input path holds the same thing: nothing, a directory, a camera
\* list or rows of numbers
FormatsInit ==
    /\ \E content \in {NoFile, Directory, TextFile(SampleCameras),
                       TextFile(SampleXyz)} :
          fs = [p \in DetectedPaths \cup OutputPaths |->
                   IF p \in OutputPaths THEN NoFile ELSE content]
    /\ pre = fs
    /\ hist = <<>>

\* DataManager::detect_format(path)
DmDetectFormat(path) ==
    /\ hist = <<>>
    /\ LET d == dm_detect_format(fs, path)
       IN  /\ hist' = <<[op |-> "DataManager::detect_format", input |-> path,
                         res |-> IF d.ok THEN Ok ELSE d.err,
                         resolved |-> IF d.ok THEN <<d.fmt>> ELSE <<>>,
                         log |-> d.log]>>
           /\ pre' = fs
           /\ fs' = fs

\* formats::parse_format(format_str)
ParseFormat(format_str) ==
    /\ hist = <<>>
    /\ LET d == parse_format(format_str)
       IN  /\ hist' = <<[op |-> "parse_format", input |-> format_str,
                         res |-> IF d.ok THEN Ok ELSE d.err,
                         resolved |-> IF d.ok THEN <<d.fmt>> ELSE <<>>,
                         log |-> d.log]>>
           /\ pre' = fs
           /\ fs' = fs

\* DataManager::parse_format(format_str)
DmParseFormat(format_str) ==
    /\ hist = <<>>
    /\ LET d == dm_parse_format(format_str)
       IN  /\ hist' = <<[op |-> "DataManager::parse_format", input |-> format_str,
                         res |-> IF d.ok THEN Ok ELSE d.err,
                         resolved |-> IF d.ok THEN <<d.fmt>> ELSE <<>>,
                         log |-> d.log]>>
           /\ pre' = fs
           /\ fs' = fs

FormatsNext ==
    \/ \E path \in DetectedPaths : DetectFormat(path)
    \/ \E path \in DetectedPaths : DmDetectFormat(path)
    \/ \E format_str \in ParsedTokens : ParseFormat(format_str)
    \/ \E format_str \in ParsedTokens : DmParseFormat(format_str)
    \/ \E input \in RequestInputs, output \in OutputPaths,
          output_format \in RequestTokens :
          ConvertFile(input, output, None, output_format)
    \/ \E input \in RequestInputs, output \in OutputPaths,
          input_format \in RequestTokens, output_format \in RequestTokens :
          ConvertFile(input, output, Some(input_format), output_format)

SpecFormats == FormatsInit /\ [][FormatsNext]_vars

\* a names the lowercase name b, in some casing
SameIgnoringCase(a, b) == a \in Casings(b)

NamedBy(table, str) == {name \in DOMAIN table : SameIgnoringCase(str, name)}

(***************************************************************************)
(* C11.  detect_format maps the extension of the path through the table    *)
(* ply->PLY, pcd->PCD, xyz->XYZ, laz->LAZ, json->CameraParameters(NeRF)    *)
(* without reading the file, and fails with UnsupportedFormat carrying the *)
(* extension for every other extension, the empty one of a path without    *)
(* extension included.  (The extension txt is the sniffing rule's.)        *)
(***************************************************************************)
ExtensionTable ==
    (<<"p", "l", "y">> :> PointCloud("PLY")) @@
    (<<"p", "c", "d">> :> PointCloud("PCD")) @@
    (<<"x", "y", "z">> :> PointCloud("XYZ")) @@
    (<<"l", "a", "z">> :> PointCloud("LAZ")) @@
    (<<"j", "s", "o", "n">> :> CameraParameters("NeRF"))

DetectedByExtension ==
    /\ hist # <<>>
    /\ Last.op \in {"detect_format", "DataManager::detect_format"}
    /\ ~SameIgnoringCase(extension_or_empty(Last.input), <<"t", "x", "t">>)

\* C11 as stated: the extension is looked up as it is written
C11_DetectByExtensionAsWritten ==
    DetectedByExtension =>
        LET extension == extension_or_empty(Last.input)
        IN  /\ Last.log = <<>>
            /\ fs = pre
            /\ IF extension \in DOMAIN ExtensionTable
               THEN Last.res = Ok /\ Last.resolved = <<ExtensionTable[extension]>>
               ELSE Last.res = UnsupportedFormat(extension) /\ Last.resolved = <<>>

\* C11 as amended: the extension is looked up whatever its casing, and the
\* error of an extension outside the table carries it as the path writes it
C11_DetectByExtension ==
    DetectedByExtension =>
        LET extension == extension_or_empty(Last.input)
            named == NamedBy(ExtensionTable, extension)
        IN  /\ Last.log = <<>>
            /\ fs = pre
            /\ IF named # {}
               THEN /\ Last.res = Ok
                    /\ \E name \in named : Last.resolved = <<ExtensionTable[name]>>
               ELSE Last.res = UnsupportedFormat(extension) /\ Last.resolved = <<>>

C11_Witness ==
    /\ DetectedByExtension
    /\ Last.op = "DataManager::detect_format"
    /\ Last.input = "CLOUD.PLY"
    /\ pre["CLOUD.PLY"] = NoFile
    /\ Last.resolved = <<PointCloud("PLY")>>
    /\ Last.log = <<>>

(***************************************************************************)
(* C12.  parse_format is a case-insensitive lookup: any casing of ply,     *)
(* pcd, xyz, laz, colmap, nerf, opencv, blender gives the PointCloud or    *)
(* CameraParameters variant of that name, every other token fails with     *)
(* UnsupportedFormat carrying the token as given, and no result is a       *)
(* Dataset or a Custom variant.                                            *)
(***************************************************************************)
TokenTable ==
    (<<"p", "l", "y">> :> PointCloud("PLY")) @@
    (<<"p", "c", "d">> :> PointCloud("PCD")) @@
    (<<"x", "y", "z">> :> PointCloud("XYZ")) @@
    (<<"l", "a", "z">> :> PointCloud("LAZ")) @@
    (<<"c", "o", "l", "m", "a", "p">> :> CameraParameters("COLMAP")) @@
    (<<"n", "e", "r", "f">> :> CameraParameters("NeRF")) @@
    (<<"o", "p", "e", "n", "c", "v">> :> CameraParameters("OpenCV")) @@
    (<<"b", "l", "e", "n", "d", "e", "r">> :> CameraParameters("Blender"))

Parsed ==
    /\ hist # <<>>
    /\ Last.op \in {"parse_format", "DataManager::parse_format"}

C12_ParseFormatAnyCasing ==
    Parsed =>
        LET named == NamedBy(TokenTable, Last.input)
        IN  /\ IF named # {}
               THEN /\ Last.res = Ok
                    /\ \E name \in named : Last.resolved = <<TokenTable[name]>>
               ELSE /\ Last.res = UnsupportedFormat(Last.input)
                    /\ Last.resolved = <<>>
            /\ \A k \in 1..Len(Last.resolved) :
                  /\ Last.resolved[k].cat \in {"PointCloud", "CameraParameters"}
                  /\ Last.resolved[k].kind # "Custom"
            /\ Last.log = <<>>

C12_Witness ==
    /\ Parsed
    /\ Last.op = "parse_format"
    /\ Last.input = <<"B", "l", "E", "n", "D", "e", "R">>
    /\ Last.resolved = <<CameraParameters("Blender")>>


(***************************************************************************)
(* C13.  convert_file resolves the input format first and the output       *)
(* format second, both before any conversion step.  A given input format   *)
(* name is parsed and the input path is not looked at; the path is         *)
(* detected only when no name is given; the output format comes from its   *)
(* name alone, never from the output path; a failure of either resolution  *)
(* returns UnsupportedFormat before any output file is created, and when   *)
(* both would fail the error returned is the input's.                      *)
(***************************************************************************)
Requested == hist # <<>> /\ Last.op = "convert_file"

\* What the lookup of a token gives
ByToken(format_str) ==
    LET named == NamedBy(TokenTable, format_str)
    IN  IF named # {}
        THEN Resolved(TokenTable[CHOOSE name \in named : TRUE], <<>>)
        ELSE Unresolved(UnsupportedFormat(format_str), <<>>)

InputResolution ==
    IF Last.input_format.some THEN ByToken(Last.input_format.value)
    ELSE dm_detect_format(pre, Last.input)

OutputResolution == ByToken(Last.output_format)

ResolutionFailed ==
    Requested /\ (~InputResolution.ok \/ ~OutputResolution.ok)

Creates(log) == \E k \in 1..Len(log) : log[k][1] = "create"

\* C13 as stated: every failed resolution ends in UnsupportedFormat
C13_ResolutionFailsUnsupported ==
    ResolutionFailed =>
        /\ Last.res.tag = "UnsupportedFormat"
        /\ fs = pre
        /\ ~Creates(Last.log)

\* C13 as amended: a failed resolution ends in the error of the resolution
\* that failed, which is an I/O error when the sniffing of a txt input fails
C13_ResolutionOrder ==
    Requested =>
        /\ ~InputResolution.ok =>
              /\ Last.res = InputResolution.err
              /\ Last.resolved = <<>>
              /\ Last.log = InputResolution.log
        /\ (InputResolution.ok /\ ~OutputResolution.ok) =>
              /\ Last.res = OutputResolution.err
              /\ Last.resolved = <<InputResolution.fmt>>
              /\ Last.log = InputResolution.log
        /\ (InputResolution.ok /\ OutputResolution.ok) =>
              /\ Last.resolved = <<InputResolution.fmt, OutputResolution.fmt>>
              /\ Len(Last.log) >= Len(InputResolution.log)
              /\ SubSeq(Last.log, 1, Len(InputResolution.log)) = InputResolution.log
        /\ ResolutionFailed =>
              /\ Last.res.tag \in {"UnsupportedFormat", "IoError"}
              /\ Last.res.tag = "IoError" =>
                    /\ ~Last.input_format.some
                    /\ SameIgnoringCase(extension_or_empty(Last.input),
                                        <<"t", "x", "t">>)
              /\ fs = pre
              /\ ~Creates(Last.log)

C13_Witness ==
    /\ Requested
    /\ ~Last.input_format.some
    /\ Last.input = "scan.txt"
    /\ pre["scan.txt"] = NoFile
    /\ Last.output = "out.ply"
    /\ Last.output_format = <<"o", "b", "j">>
    /\ Last.res = IoError
    /\ fs = pre


(***************************************************************************)
(* Specification SpecColmap: a COLMAP directory whose images.txt holds up  *)
(* to MaxImageLines lines is read and converted to NeRF by                 *)
(* CameraParamsConverter; between two conversions the directory may be     *)
(* edited in what the conversion is said not to depend on.                 *)
(***************************************************************************)
Token(str) == <<str>>

\* 1 PINHOLE 640 480 500 500 320 240
CamPinhole ==
    JoinTokens(<<fmt_usize(1), <<"PINHOLE">>, fmt_usize(640), fmt_usize(480),
                 fmt_usize(500), fmt_usize(500), fmt_usize(320), fmt_usize(240)>>)
\* 2 SIMPLE_PINHOLE 800 600 400 400 300
CamSimple ==
    JoinTokens(<<fmt_usize(2), <<"SIMPLE_PINHOLE">>, fmt_usize(800), fmt_usize(600),
                 fmt_usize(400), fmt_usize(400), fmt_usize(300)>>)
\* 3 PINHOLE 640 480 f      (no parameter that is a number)
CamNoParams ==
    JoinTokens(<<fmt_usize(3), <<"PINHOLE">>, fmt_usize(640), fmt_usize(480),
                 <<"f">> >>)
\* 4 PINHOLE 640 480        (no parameter at all)
CamShort ==
    JoinTokens(<<fmt_usize(4), <<"PINHOLE">>, fmt_usize(640), fmt_usize(480)>>)
\* x OPENCV wide 480 250 1e 125
CamBad ==
    JoinTokens(<<<<"x">>, <<"OPENCV">>, <<"wide">>, fmt_usize(480), fmt_usize(250),
                 <<"1", "e">>, fmt_usize(125)>>)

CameraLines == {CamPinhole, CamSimple, CamNoParams, CamShort, CamBad}

CameraFiles ==
    {<<>>, CamerasHeader \o <<CamPinhole>>, <<CamPinhole, CamSimple>>,
     <<CamSimple, Blank, CamPinhole>>, <<CamNoParams, CamPinhole>>,
     <<CamShort, CamBad>>, <<CamShort>>}

\* 1 1 0 0 0 1 2 3 1 a.png
PoseA ==
    JoinTokens(<<fmt_usize(1), <<"1">>, <<"0">>, <<"0">>, <<"0">>,
                 <<"1">>, <<"2">>, <<"3">>, fmt_usize(1), <<"a.png">> >>)
\* 2 0.8 0.6 0 0 0 0 -1 2 b.png
PoseB ==
    JoinTokens(<<fmt_usize(2), <<"0", ".", "8">>, <<"0", ".", "6">>, <<"0">>,
                 <<"0">>, <<"0">>, <<"0">>, <<"-", "1">>, fmt_usize(2),
                 <<"b.png">> >>)
\* x 0.6 nope 0.8 0 1e 2 3 -1 c.png
PoseBad ==
    JoinTokens(<<<<"x">>, <<"0", ".", "6">>, <<"nope">>, <<"0", ".", "8">>, <<"0">>,
                 <<"1", "e">>, <<"2">>, <<"3">>, <<"-", "1">>, <<"c.png">> >>)
\* 3 1 0 0 0 1 2 3 1        (the name is missing)
PoseShort ==
    JoinTokens(<<fmt_usize(3), <<"1">>, <<"0">>, <<"0">>, <<"0">>,
                 <<"1">>, <<"2">>, <<"3">>, fmt_usize(1)>>)
\* The 2D points of an image, as X Y POINT3D_ID triples: four of them
\* 10.5 20.5 7 30.5 40.5 -1 50.5 60.5 8 70.5 80.5 9
PointsOfFour ==
    JoinTokens(<<<<"1", "0", ".", "5">>, <<"2", "0", ".", "5">>, <<"7">>,
                 <<"3", "0", ".", "5">>, <<"4", "0", ".", "5">>, <<"-", "1">>,
                 <<"5", "0", ".", "5">>, <<"6", "0", ".", "5">>, <<"8">>,
                 <<"7", "0", ".", "5">>, <<"8", "0", ".", "5">>, <<"9">> >>)
\* and one of them: 10.5 20.5 7
PointsOfOne ==
    JoinTokens(<<<<"1", "0", ".", "5">>, <<"2", "0", ".", "5">>, <<"7">> >>)

PoseLines == {PoseA, PoseB, PoseBad, PoseShort}
PointLists == {PointsOfFour, PointsOfOne, Blank}
ImageLines == PoseLines \cup PointLists \cup {ImagesHeader[1]}

ColmapPaths == {"sparse", "sparse/cameras.txt", "sparse/images.txt", "out"}

ColmapInit ==
    /\ \E cameras \in CameraFiles, images \in FilesOver(ImageLines, MaxImageLines) :
          fs = [p \in ColmapPaths |->
                  CASE p = "sparse" -> Directory
                    [] p = "sparse/cameras.txt" -> TextFile(cameras)
                    [] p = "sparse/images.txt" -> TextFile(images)
                    [] OTHER -> NoFile]
    /\ pre = fs
    /\ hist = <<>>

\* CameraParamsConverter::convert(sparse, out, COLMAP, NeRF), the first time
\* and again after an edit
ColmapToNerf ==
    /\ Len(hist) \in {0, 2}
    /\ LET out == cam_convert(fs, "sparse", "out", CameraParameters("COLMAP"),
                              CameraParameters("NeRF"))
       IN  /\ fs' = out.fs
           /\ pre' = fs
           /\ hist' = Append(hist,
                             [op |-> "colmap_to_nerf", res |-> out.res,
                              log |-> out.log, file |-> out.fs["out"]])

\* read_colmap_cameras(sparse) and read_colmap_images(sparse)
ReadColmap ==
    /\ hist = <<>>
    /\ hist' = <<[op |-> "read_colmap",
                  cameras |-> read_colmap_cameras(fs, "sparse"),
                  images |-> read_colmap_images(fs, "sparse")]>>
    /\ pre' = fs
    /\ fs' = fs

\* The index of the first line of cameras.txt that yields a record, or 0
FirstCameraRow(lines) ==
    LET rows == {i \in 1..Len(lines) :
                    /\ ~is_comment_or_blank(lines[i])
                    /\ Len(split_whitespace(lines[i])) >= 5}
    IN  IF rows = {} THEN 0 ELSE CHOOSE i \in rows : \A j \in rows : i <= j

\* Someone rewrites what follows the first camera record of cameras.txt
RewriteLaterCameras(rest) ==
    /\ Len(hist) = 1
    /\ LET lines == fs["sparse/cameras.txt"].lines
           first == FirstCameraRow(lines)
       IN  /\ first > 0
           /\ fs' = [fs EXCEPT !["sparse/cameras.txt"] =
                        TextFile(SubSeq(lines, 1, first) \o rest)]
    /\ pre' = pre
    /\ hist' = Append(hist, [op |-> "rewrite_later_cameras"])

\* Someone rewrites the CAMERA_ID field of every image row of images.txt
RenumberImageCameras(camera_id) ==
    /\ Len(hist) = 1
    /\ LET lines == fs["sparse/images.txt"].lines
           renumbered(line) ==
               LET parts == split_whitespace(line)
               IN  IF is_comment_or_blank(line) \/ Len(parts) < 10 THEN line
                   ELSE JoinTokens([parts EXCEPT ![9] = camera_id])
       IN  fs' = [fs EXCEPT !["sparse/images.txt"] =
                     TextFile([i \in 1..Len(lines) |-> renumbered(lines[i])])]
    /\ pre' = pre
    /\ hist' = Append(hist, [op |-> "renumber_image_cameras"])

ColmapNext ==
    \/ ColmapToNerf
    \/ ReadColmap
    \/ \E rest \in {<<>>, <<CamSimple>>, <<CamBad, CamPinhole>>} :
          RewriteLaterCameras(rest)
    \/ \E camera_id \in {<<"7">>, <<"x">>} : RenumberImageCameras(camera_id)

SpecColmap == ColmapInit /\ [][ColmapNext]_vars


(***************************************************************************)
(* C14.  COLMAP->NeRF emits exactly one frame per image record read from   *)
(* images.txt, in the order of the records; frame i has the name of image  *)
(* i as file_path, rotation 0.0, and the transform built from the          *)
(* (qw,qx,qy,qz,tx,ty,tz) of image i.                                      *)
(***************************************************************************)
ConvertedToNerf == hist # <<>> /\ Last.op = "colmap_to_nerf" /\ Last.res = Ok

\* The lines of images.txt that give an image record
ImageRows(lines) ==
    SelectSeq(lines, LAMBDA line : /\ ~is_comment_or_blank(line)
                                   /\ Len(split_whitespace(line)) >= 10)

ImagesOfLast == pre["sparse/images.txt"].lines
CamerasOfLast == pre["sparse/cameras.txt"].lines

C14_OneFramePerImage ==
    ConvertedToNerf =>
        LET rows == ImageRows(ImagesOfLast)
            frames == Last.file.value.frames
        IN  /\ Last.file.kind = "json"
            /\ Len(frames) = Len(rows)
            /\ \A i \in 1..Len(rows) :
                  LET parts == split_whitespace(rows[i])
                  IN  /\ frames[i].file_path = parts[10]
                      /\ frames[i].rotation = F(0)
                      /\ frames[i].transform_matrix =
                            quaternion_to_matrix(
                               f64_or_0(parts[2]), f64_or_0(parts[3]),
                               f64_or_0(parts[4]), f64_or_0(parts[5]),
                               f64_or_0(parts[6]), f64_or_0(parts[7]),
                               f64_or_0(parts[8]))

C14_Witness ==
    /\ ConvertedToNerf
    /\ ImagesOfLast = <<PoseB, PoseA>>
    /\ Len(Last.file.value.frames) = 2
    /\ Last.file.value.frames[1].file_path = Token("b.png")
    /\ Last.file.value.frames[1].transform_matrix[2][2] = Rat(7, 25)
    /\ Last.file.value.frames[1].transform_matrix[3][4] = F(-1)
    /\ Last.file.value.frames[2].file_path = Token("a.png")
    /\ Last.file.value.frames[2].transform_matrix[3][4] = F(3)


(***************************************************************************)
(* C15.  COLMAP->NeRF uses only the first camera record: camera_angle_x is *)
(* 2*atan(width / (2*fx)) with the width of the first record and fx its    *)
(* first parameter, 500.0 when it has none; and two inputs that differ     *)
(* only in the camera records after the first, or only in the CAMERA_ID    *)
(* fields of the images, give the same output.                             *)
(***************************************************************************)
ConvertedAgain ==
    /\ Len(hist) = 3
    /\ hist[1].op = "colmap_to_nerf"
    /\ hist[2].op \in {"rewrite_later_cameras", "renumber_image_cameras"}
    /\ hist[3].op = "colmap_to_nerf"

C15_OnlyFirstCamera ==
    /\ ConvertedToNerf =>
          LET parts == split_whitespace(CamerasOfLast[FirstCameraRow(CamerasOfLast)])
              width == IF parse_u32(parts[3]).some THEN parse_u32(parts[3]).value
                       ELSE 0
              params == parse_params(parts, 5)
              fx == IF params # <<>> THEN params[1] ELSE F(500)
          IN  Last.file.value.camera_angle_x =
                 [two_atan_of |-> RDiv(F(width), RMul(F(2), fx))]
    /\ ConvertedAgain =>
          /\ hist[3].res = hist[1].res
          /\ hist[3].file = hist[1].file

C15_Witness ==
    /\ ConvertedAgain
    /\ hist[2].op = "rewrite_later_cameras"
    /\ CamerasOfLast = <<CamNoParams, CamBad, CamPinhole>>
    /\ ImagesOfLast = <<PoseA>>
    /\ hist[1].res = Ok
    /\ hist[3].file.value.camera_angle_x = [two_atan_of |-> Rat(16, 25)]
    /\ hist[3].file = hist[1].file


(***************************************************************************)
(* C16.  Reading images.txt yields exactly one ColmapImage per pose line:  *)
(* the list of 2D points on the second line of each image entry is not     *)
(* read, so no point-list line gives an image record or a NeRF frame,      *)
(* whatever number of tokens it holds.                                     *)
(***************************************************************************)
ReadDone == hist # <<>> /\ Last.op = "read_colmap"

\* The lines of images.txt that are not comments: the entries' lines
EntryLines(lines) == SelectSeq(lines, LAMBDA line : ~starts_with(line, <<"#">>))

\* images.txt as COLMAP writes it: a pose line, then the line of its points
TwoLinesPerImage(lines) ==
    \A i \in 1..Len(EntryLines(lines)) :
        IF i % 2 = 1 THEN EntryLines(lines)[i] \in PoseLines
        ELSE EntryLines(lines)[i] \in PointLists

\* The pose lines among them that hold every field
PoseRows(lines) ==
    LET entries == EntryLines(lines)
        odd == [k \in 1..((Len(entries) + 1) \div 2) |-> entries[2 * k - 1]]
    IN  ImageRows(odd)

NamesOf(rows) == [k \in 1..Len(rows) |-> split_whitespace(rows[k])[10]]

C16_PointListNeverRead ==
    /\ (ReadDone /\ TwoLinesPerImage(ImagesOfLast)) =>
          /\ Last.images.res = Ok
          /\ [k \in 1..Len(Last.images.value) |-> Last.images.value[k].name]
                = NamesOf(PoseRows(ImagesOfLast))
    /\ (ConvertedToNerf /\ TwoLinesPerImage(ImagesOfLast)) =>
          [k \in 1..Len(Last.file.value.frames) |->
               Last.file.value.frames[k].file_path]
             = NamesOf(PoseRows(ImagesOfLast))


(***************************************************************************)
(* C17.  Reading COLMAP text rows is lenient: a malformed or missing       *)
(* numeric field of a row defaults to 0.0 instead of aborting the row or   *)
(* the file, so the read never returns an error for a bad numeric token    *)
(* and every row that is neither a comment nor blank yields a record.      *)
(***************************************************************************)
DataRows(lines) == SelectSeq(lines, LAMBDA line : ~is_comment_or_blank(line))

\* The lines of cameras.txt that give a camera record
CameraRows(lines) ==
    SelectSeq(lines, LAMBDA line : /\ ~is_comment_or_blank(line)
                                   /\ Len(split_whitespace(line)) >= 5)

\* C17 as stated: one record for every row
C17_EveryRowYieldsRecord ==
    ReadDone =>
        /\ Last.cameras.res = Ok
        /\ Last.images.res = Ok
        /\ Len(Last.cameras.value) = Len(DataRows(CamerasOfLast))
        /\ Len(Last.images.value) = Len(DataRows(ImagesOfLast))

OrZero(parsed, zero) == IF parsed.some THEN parsed.value ELSE zero

\* The tokens of `tokens` that are numbers, as numbers
NumbersAmong(tokens) ==
    LET numbers == SelectSeq(tokens, LAMBDA tok : parse_f64(tok).some)
    IN  [k \in 1..Len(numbers) |-> parse_f64(numbers[k]).value]

\* C17 as amended: one record for every row that holds at least 10 tokens
\* (images.txt) or 5 (cameras.txt), a row with fewer being skipped; in a
\* record a numeric field that is not a number is 0, and a camera parameter
\* that is not a number is left out
C17_LenientNumbers ==
    ReadDone =>
        LET camera_rows == CameraRows(CamerasOfLast)
            image_rows == ImageRows(ImagesOfLast)
        IN  /\ Last.cameras.res = Ok
            /\ Last.images.res = Ok
            /\ Len(Last.cameras.value) = Len(camera_rows)
            /\ \A k \in 1..Len(camera_rows) :
                  LET parts == split_whitespace(camera_rows[k])
                  IN  Last.cameras.value[k] =
                         [camera_id |-> OrZero(parse_u32(parts[1]), 0),
                          model |-> parts[2],
                          width |-> OrZero(parse_u32(parts[3]), 0),
                          height |-> OrZero(parse_u32(parts[4]), 0),
                          params |-> NumbersAmong(SubSeq(parts, 5, Len(parts)))]
            /\ Len(Last.images.value) = Len(image_rows)
            /\ \A k \in 1..Len(image_rows) :
                  LET parts == split_whitespace(image_rows[k])
                  IN  Last.images.value[k] =
                         [image_id |-> OrZero(parse_u32(parts[1]), 0),
                          qw |-> OrZero(parse_f64(parts[2]), F(0)),
                          qx |-> OrZero(parse_f64(parts[3]), F(0)),
                          qy |-> OrZero(parse_f64(parts[4]), F(0)),
                          qz |-> OrZero(parse_f64(parts[5]), F(0)),
                          tx |-> OrZero(parse_f64(parts[6]), F(0)),
                          ty |-> OrZero(parse_f64(parts[7]), F(0)),
                          tz |-> OrZero(parse_f64(parts[8]), F(0)),
                          camera_id |-> OrZero(parse_u32(parts[9]), 0),
                          name |-> parts[10]]

C17_Witness ==
    /\ ReadDone
    /\ CamerasOfLast = <<CamShort, CamBad>>
    /\ ImagesOfLast = <<PoseBad, PoseShort>>
    /\ Last.cameras.value =
          << [camera_id |-> 0, model |-> Token("OPENCV"), width |-> 0,
              height |-> 480, params |-> <<F(250), F(125)>>] >>
    /\ Last.images.value =
          << [image_id |-> 0, qw |-> Rat(3, 5), qx |-> F(0), qy |-> Rat(4, 5),
              qz |-> F(0), tx |-> F(0), ty |-> F(2), tz |-> F(3),
              camera_id |-> 0, name |-> Token("c.png")] >>


(***************************************************************************)
(* Specification SpecNerf: a NeRF transforms file of up to MaxFrames       *)
(* frames is converted to COLMAP by CameraParamsConverter.                 *)
(* Specification SpecQuaternion: quaternion_to_matrix and                  *)
(* matrix_to_quaternion are applied to unit quaternions and to matrices of *)
(* every sign of trace; the file system plays no part.                     *)
(***************************************************************************)
Components ==
    {F(0), F(1), F(-1), Rat(1, 2), Rat(-1, 2), Rat(3, 5), Rat(-3, 5),
     Rat(4, 5), Rat(-4, 5), Rat(1, 3), Rat(-1, 3), Rat(2, 3), Rat(-2, 3)}

SquareOf(a) == RMul(a, a)

\* The quaternions of norm 1 with these components
UnitQuaternions ==
    {q \in Components \X Components \X Components \X Components :
        RAdd(RAdd(SquareOf(q[1]), SquareOf(q[2])),
             RAdd(SquareOf(q[3]), SquareOf(q[4]))) = F(1)}

Translations == {<<F(1), F(2), F(-3)>>, <<Rat(1, 2), F(0), Rat(-7, 4)>>}

MatrixOf(q, t) == quaternion_to_matrix(q[1], q[2], q[3], q[4], t[1], t[2], t[3])

\* The rotation by 180 degrees about the x-axis, moved by (1, 2, -3)
HalfTurnAboutX ==
    << <<F(1), F(0), F(0), F(1)>>,
       <<F(0), F(-1), F(0), F(2)>>,
       <<F(0), F(0), F(-1), F(-3)>>,
       <<F(0), F(0), F(0), F(1)>> >>

\* Matrices that are not rotations: a file may hold any numbers
ZeroMatrix == [r \in 1..4 |-> [c \in 1..4 |-> F(0)]]
Sheared ==
    << <<F(3), F(2), F(-1), Rat(1, 2)>>,
       <<F(5), F(-4), F(7), F(0)>>,
       <<F(1), F(-6), F(-1), F(9)>>,
       <<F(0), F(0), F(0), F(1)>> >>
Scaled ==
    << <<F(1), F(1), F(0), F(4)>>,
       <<F(-1), F(1), F(0), F(5)>>,
       <<F(0), F(0), F(1), F(6)>>,
       <<F(0), F(0), F(0), F(1)>> >>

Matrices == {HalfTurnAboutX, ZeroMatrix, Sheared, Scaled}

Frame(name, matrix) ==
    [file_path |-> Token(name), rotation |-> F(0), transform_matrix |-> matrix]

NerfFrames ==
    {Frame("a.png", MatrixOf(<<F(1), F(0), F(0), F(0)>>, <<F(1), F(2), F(-3)>>)),
     Frame("b.png", MatrixOf(<<Rat(4, 5), Rat(3, 5), F(0), F(0)>>,
                             <<F(0), F(0), F(-1)>>)),
     Frame("b.png", HalfTurnAboutX),
     Frame("c.png", Sheared)}

NerfPaths == {"transforms.json", "out", "out/cameras.txt", "out/images.txt"}

NerfInit ==
    /\ \E frames \in FilesOver(NerfFrames, MaxFrames),
          camera_angle_x \in {Rat(3, 5), [two_atan_of |-> Rat(16, 25)]},
          out \in {Directory, NoFile} :
          fs = [p \in NerfPaths |->
                  CASE p = "transforms.json" ->
                          JsonFile([camera_angle_x |-> camera_angle_x,
                                    frames |-> frames])
                    [] p = "out" -> out
                    [] OTHER -> NoFile]
    /\ pre = fs
    /\ hist = <<>>

\* CameraParamsConverter::convert(transforms.json, out, NeRF, COLMAP)
NerfToColmap ==
    /\ hist = <<>>
    /\ LET out == cam_convert(fs, "transforms.json", "out", CameraParameters("NeRF"),
                              CameraParameters("COLMAP"))
       IN  /\ fs' = out.fs
           /\ pre' = fs
           /\ hist' = <<Call("CameraParamsConverter::convert", "transforms.json",
                             "out", CameraParameters("NeRF"),
                             CameraParameters("COLMAP"), out)>>

\* quaternion_to_matrix(qw, qx, qy, qz, tx, ty, tz)
QuaternionToMatrix(q, t) ==
    /\ hist = <<>>
    /\ hist' = <<[op |-> "quaternion_to_matrix", q |-> q, t |-> t,
                  matrix |-> quaternion_to_matrix(q[1], q[2], q[3], q[4],
                                                  t[1], t[2], t[3])]>>
    /\ UNCHANGED <<fs, pre>>

\* matrix_to_quaternion(matrix)
MatrixToQuaternion(matrix) ==
    /\ hist' = Append(hist, [op |-> "matrix_to_quaternion", matrix |-> matrix,
                             result |-> matrix_to_quaternion(matrix)])
    /\ UNCHANGED <<fs, pre>>

NerfNext == NerfToColmap

SpecNerf == NerfInit /\ [][NerfNext]_vars

QuaternionInit ==
    /\ fs = [p \in NerfPaths |-> NoFile]
    /\ pre = fs
    /\ hist = <<>>

QuaternionNext ==
    \/ \E q \in UnitQuaternions, t \in Translations : QuaternionToMatrix(q, t)
    \/ \E matrix \in Matrices : hist = <<>> /\ MatrixToQuaternion(matrix)
    \/ /\ Len(hist) = 1
       /\ Last.op = "quaternion_to_matrix"
       /\ MatrixToQuaternion(Last.matrix)

SpecQuaternion == QuaternionInit /\ [][QuaternionNext]_vars


(***************************************************************************)
(* C18.  NeRF->COLMAP writes exactly one camera row into cameras.txt,      *)
(* "1 PINHOLE 640 480 500 500 320 240", whatever camera_angle_x and the    *)
(* number of frames of the input are, and into images.txt one image row    *)
(* per frame, in frame order, with image_id 1, 2, .., n, camera_id 1, the  *)
(* pose matrix_to_quaternion extracts from the frame and the frame's file  *)
(* path as name.  Hence the image ids are pairwise different and every     *)
(* image's camera_id is the id of the camera row of cameras.txt.           *)
(***************************************************************************)
ConvertedToColmap ==
    hist # <<>> /\ Last.op = "CameraParamsConverter::convert" /\ Last.res = Ok

FramesOfLast == pre["transforms.json"].value.frames

TheCameraRow ==
    <<fmt_usize(1), <<"PINHOLE">>, fmt_usize(640), fmt_usize(480),
      fmt_usize(500), fmt_usize(500), fmt_usize(320), fmt_usize(240)>>

C18_OneCameraAndImagePerFrame ==
    ConvertedToColmap =>
        LET cameras == DataRows(fs["out/cameras.txt"].lines)
            images == DataRows(fs["out/images.txt"].lines)
            image_id(row) == split_whitespace(row)[1]
            camera_id(row) == split_whitespace(row)[9]
        IN  /\ Len(cameras) = 1
            /\ split_whitespace(cameras[1]) = TheCameraRow
            /\ Len(images) = Len(FramesOfLast)
            /\ \A k \in 1..Len(images) :
                  LET parts == split_whitespace(images[k])
                      q == matrix_to_quaternion(FramesOfLast[k].transform_matrix)
                  IN  /\ Len(parts) = 10
                      /\ parts[1] = fmt_usize(k)
                      /\ parts[9] = fmt_usize(1)
                      /\ parts[10] = FramesOfLast[k].file_path
                      /\ <<parts[2], parts[3], parts[4], parts[5]>>
                           = <<fmt_f64(q.qw), fmt_f64(q.qx), fmt_f64(q.qy), fmt_f64(q.qz)>>
                      /\ <<parts[6], parts[7], parts[8]>>
                           = <<fmt_f64(q.tx), fmt_f64(q.ty), fmt_f64(q.tz)>>
            /\ \A j, k \in 1..Len(images) :
                  image_id(images[j]) = image_id(images[k]) => j = k
            /\ \A k \in 1..Len(images) :
                  camera_id(images[k]) = split_whitespace(cameras[1])[1]

C18_Witness ==
    /\ ConvertedToColmap
    /\ pre["transforms.json"].value.camera_angle_x = [two_atan_of |-> Rat(16, 25)]
    /\ Len(FramesOfLast) = 3
    /\ FramesOfLast[1].file_path = Token("c.png")
    /\ FramesOfLast[2] = FramesOfLast[3]
    /\ FramesOfLast[2].transform_matrix = HalfTurnAboutX
    /\ Len(DataRows(fs["out/cameras.txt"].lines)) = 1
    /\ split_whitespace(DataRows(fs["out/images.txt"].lines)[3])
         = <<fmt_usize(3), fmt_usize(1), fmt_usize(0), fmt_usize(0), fmt_usize(0),
             fmt_usize(1), fmt_usize(2), <<"-", "3">>, fmt_usize(1), Token("b.png")>>


(***************************************************************************)
(* C19.  For every matrix whose trace M[0][0] + M[1][1] + M[2][2] is <= 0  *)
(* (the rotation by 180 degrees about the x-axis is one),                  *)
(* matrix_to_quaternion returns the identity rotation (1, 0, 0, 0), and    *)
(* the translation is still (M[0][3], M[1][3], M[2][3]).                   *)
(***************************************************************************)
Extracted == hist # <<>> /\ Last.op = "matrix_to_quaternion"

TraceOf(matrix) == RAdd(RAdd(matrix[1][1], matrix[2][2]), matrix[3][3])

Pose(q, t) ==
    [qw |-> q[1], qx |-> q[2], qy |-> q[3], qz |-> q[4],
     tx |-> t[1], ty |-> t[2], tz |-> t[3]]

C19_IdentityForNonPositiveTrace ==
    (Extracted /\ ~RPositive(TraceOf(Last.matrix))) =>
        Last.result = Pose(<<F(1), F(0), F(0), F(0)>>,
                           <<Last.matrix[1][4], Last.matrix[2][4], Last.matrix[3][4]>>)

C19_Witness ==
    /\ Extracted
    /\ Last.matrix = HalfTurnAboutX
    /\ TraceOf(Last.matrix) = F(-1)
    /\ Last.result = Pose(<<F(1), F(0), F(0), F(0)>>, <<F(1), F(2), F(-3)>>)


(***************************************************************************)
(* C20.  As the claim is written: for every unit quaternion q and          *)
(* translation t such that the rotation matrix derived from q has a        *)
(* positive trace, matrix_to_quaternion(quaternion_to_matrix(q, t)) is q,  *)
(* component by component, and t.  The arithmetic of the model is exact,   *)
(* so a difference it finds is not one of rounding.                        *)
(***************************************************************************)
RoundTripped ==
    /\ Len(hist) = 2
    /\ hist[1].op = "quaternion_to_matrix"
    /\ Last.op = "matrix_to_quaternion"
    /\ Last.matrix = hist[1].matrix
    /\ RPositive(TraceOf(Last.matrix))

C20_RoundTripReproducesQ ==
    RoundTripped => Last.result = Pose(hist[1].q, hist[1].t)

Negated(q) == [k \in 1..4 |-> RSub(F(0), q[k])]

(***************************************************************************)
(* C20 (amended).  For every unit quaternion q and translation t such that *)
(* the rotation matrix derived from q has a positive trace,                *)
(* matrix_to_quaternion(quaternion_to_matrix(q, t)) reproduces t, and      *)
(* reproduces q when qw > 0 and -q (every component negated, the same      *)
(* rotation) when qw < 0; qw = 0 does not occur since the trace is         *)
(* 4*qw*qw - 1.                                                            *)
(***************************************************************************)
C20_RoundTripUpToSign ==
    RoundTripped =>
        /\ hist[1].q[1] # F(0)
        /\ Last.result = Pose(IF RPositive(hist[1].q[1]) THEN hist[1].q
                              ELSE Negated(hist[1].q),
                              hist[1].t)

C20_Witness ==
    /\ RoundTripped
    /\ hist[1].q = <<Rat(-4, 5), Rat(3, 5), F(0), F(0)>>
    /\ hist[1].t = <<Rat(1, 2), F(0), Rat(-7, 4)>>
    /\ Last.result = Pose(<<Rat(4, 5), Rat(-3, 5), F(0), F(0)>>,
                          <<Rat(1, 2), F(0), Rat(-7, 4)>>)


(***************************************************************************)
(* Specification SpecOpenCv: the two conversions between COLMAP and the    *)
(* OpenCV dump, called on CameraParamsConverter and requested from         *)
(* DataManager::convert_file, on COLMAP directories of every kind of       *)
(* camera row and on OpenCV inputs of every content.                       *)
(***************************************************************************)
\* 5 OPENCV 640 480 500.5 500.5 320 240 0.1 -0.2
CamDistorted ==
    JoinTokens(<<fmt_usize(5), <<"OPENCV">>, fmt_usize(640), fmt_usize(480),
                 <<"5", "0", "0", ".", "5">>, <<"5", "0", "0", ".", "5">>,
                 fmt_usize(320), fmt_usize(240), <<"0", ".", "1">>,
                 <<"-", "0", ".", "2">> >>)

\* 1 640 480 500 500 320 240
OpenCvLine ==
    JoinTokens(<<fmt_usize(1), fmt_usize(640), fmt_usize(480), fmt_usize(500),
                 fmt_usize(500), fmt_usize(320), fmt_usize(240)>>)

OpenCvInputs ==
    {NoFile, Directory, TextFile(<<>>), TextFile(OpenCvHeader \o <<OpenCvLine>>),
     TextFile(<< <<InvalidUtf8>> >>)}

OpenCvPaths == ColmapPaths \cup {"scan.txt"}

OpenCvInit ==
    /\ \E cameras \in CameraFiles \cup {<<CamDistorted, CamSimple, CamPinhole>>},
          images \in {NoFile} \cup {TextFile(lines) : lines \in FilesOver(ImageLines, 1)},
          opencv \in OpenCvInputs,
          out \in {NoFile, TextFile(<<Row2>>)} :
          fs = [p \in OpenCvPaths |->
                  CASE p = "sparse" -> Directory
                    [] p = "sparse/cameras.txt" -> TextFile(cameras)
                    [] p = "sparse/images.txt" -> images
                    [] p = "scan.txt" -> opencv
                    [] p = "out" -> out]
    /\ pre = fs
    /\ hist = <<>>

OpenCvNext ==
    \/ CameraConvert("sparse", "out", CameraParameters("COLMAP"),
                     CameraParameters("OpenCV"))
    \/ CameraConvert("scan.txt", "out", CameraParameters("OpenCV"),
                     CameraParameters("COLMAP"))
    \/ ConvertFile("sparse", "out", Some(<<"c", "o", "l", "m", "a", "p">>),
                   <<"o", "p", "e", "n", "c", "v">>)
    \/ ConvertFile("scan.txt", "out", Some(<<"o", "p", "e", "n", "c", "v">>),
                   <<"c", "o", "l", "m", "a", "p">>)

SpecOpenCv == OpenCvInit /\ [][OpenCvNext]_vars

(***************************************************************************)
(* C21.  As the claim is written: CameraParamsConverter's COLMAP->OpenCV   *)
(* writes two comment lines followed by one line                           *)
(* `camera_id width height fx fy cx cy` per camera record read from        *)
(* cameras.txt, in input order, so that the number of data lines equals    *)
(* the number of camera records.                                           *)
(***************************************************************************)
ConvertedToOpenCv ==
    /\ hist # <<>>
    /\ Last.op = "CameraParamsConverter::convert"
    /\ Last.to = CameraParameters("OpenCV")
    /\ Last.res = Ok

\* The line of the dump for a row of cameras.txt
DumpOf(row) ==
    LET parts == split_whitespace(row)
        params == NumbersAmong(SubSeq(parts, 5, Len(parts)))
    IN  <<fmt_usize(OrZero(parse_u32(parts[1]), 0)),
          fmt_usize(OrZero(parse_u32(parts[3]), 0)),
          fmt_usize(OrZero(parse_u32(parts[4]), 0)),
          fmt_f64(params[1]), fmt_f64(params[2]), fmt_f64(params[3]),
          fmt_f64(params[4])>>

HasFourParams(row) ==
    LET parts == split_whitespace(row)
    IN  Len(NumbersAmong(SubSeq(parts, 5, Len(parts)))) >= 4

DumpIsOf(rows) ==
    LET lines == fs["out"].lines
        data == SubSeq(lines, 3, Len(lines))
    IN  /\ fs["out"].kind = "text"
        /\ Len(lines) >= 2
        /\ SubSeq(lines, 1, 2) = OpenCvHeader
        /\ Len(data) = Len(rows)
        /\ \A k \in 1..Len(rows) : split_whitespace(data[k]) = DumpOf(rows[k])

C21_OneLinePerCameraRecord ==
    ConvertedToOpenCv => DumpIsOf(CameraRows(pre["sparse/cameras.txt"].lines))

(***************************************************************************)
(* C21 (amended).  CameraParamsConverter's COLMAP->OpenCV writes two       *)
(* comment lines followed by one line `camera_id width height fx fy cx cy` *)
(* per camera record read from cameras.txt that holds at least four        *)
(* parameters, in input order, fx fy cx cy being its first four; a record  *)
(* of fewer than four parameters gets no line, so that the number of data  *)
(* lines equals the number of camera records of at least four parameters.  *)
(***************************************************************************)
C21_OneLinePerFourParamCamera ==
    ConvertedToOpenCv =>
        DumpIsOf(SelectSeq(CameraRows(pre["sparse/cameras.txt"].lines), HasFourParams))

C21_Witness ==
    /\ ConvertedToOpenCv
    /\ pre["sparse/cameras.txt"].lines = <<CamDistorted, CamSimple, CamPinhole>>
    /\ fs["out"].lines =
          OpenCvHeader
          \o << JoinTokens(<<fmt_usize(5), fmt_usize(640), fmt_usize(480),
                             <<"5", "0", "0", ".", "5">>, <<"5", "0", "0", ".", "5">>,
                             fmt_usize(320), fmt_usize(240)>>),
                OpenCvLine >>


(***************************************************************************)
(* C22.  Every OpenCV->COLMAP conversion, called on CameraParamsConverter  *)
(* or requested from DataManager::convert_file, returns Ok having written  *)
(* exactly the two COLMAP camera header comment lines to output_path and   *)
(* nothing else; the output is the same whatever the input holds (a file   *)
(* of any content, a directory, nothing), and the input is never opened.   *)
(***************************************************************************)
OpenCvToColmapDone ==
    /\ hist # <<>>
    /\ \/ /\ Last.op = "CameraParamsConverter::convert"
          /\ Last.from = CameraParameters("OpenCV")
          /\ Last.to = CameraParameters("COLMAP")
       \/ /\ Last.op = "convert_file"
          /\ Last.resolved = <<CameraParameters("OpenCV"), CameraParameters("COLMAP")>>

C22_PlaceholderWritesHeaderOnly ==
    OpenCvToColmapDone =>
        /\ Last.res = Ok
        /\ fs = [pre EXCEPT ![Last.output] = TextFile(CamerasHeader)]
        /\ Last.log = <<CreateEv(Last.output)>>


(***************************************************************************)
(* C23.  As the claim is written: every error returned by convert_file or  *)
(* by a converter's convert is an UnsupportedFormat, a ConversionFailed or *)
(* an I/O error.                                                           *)
(***************************************************************************)
Failed ==
    /\ hist # <<>>
    /\ Last.op \in {"convert_file", "CameraParamsConverter::convert"}
    /\ Last.res \notin {Ok, NoReturn}

C23_ErrorsInTaxonomy ==
    Failed => Last.res.tag \in {"UnsupportedFormat", "ConversionFailed", "IoError"}

\* A call of CameraParamsConverter::convert from `from` to one of `tos`
ConverterCall(from, tos) ==
    /\ hist # <<>>
    /\ Last.op = "CameraParamsConverter::convert"
    /\ Last.from = CameraParameters(from)
    /\ Last.to \in {CameraParameters(to) : to \in tos}

CamerasFileOfLast == join(Last.input, "cameras.txt")
ImagesFileOfLast == join(Last.input, "images.txt")

\* The input of a NeRF->COLMAP call opens but is not the JSON of a NeRFCamera
MalformedNerf ==
    /\ CanOpen(pre, Last.input)
    /\ \/ pre[Last.input].kind # "json"
       \/ json_f64(pre[Last.input].value.camera_angle_x) = <<"null">>

(***************************************************************************)
(* C23 (amended).  Every error returned by convert_file or by a            *)
(* converter's convert is an UnsupportedFormat, a ConversionFailed, an I/O *)
(* error, an InvalidPath or a SerializationError.  InvalidPath, carrying   *)
(* the path of the file, is what CameraParamsConverter returns when        *)
(* cameras.txt, or images.txt, is missing from a COLMAP input directory,   *)
(* and only then; SerializationError is what it returns when a NeRF input  *)
(* opens but is not the JSON of a NeRF pose file, and only then; COLMAP -> *)
(* NeRF with no camera record is a ConversionFailed.  convert_file returns *)
(* neither InvalidPath nor SerializationError.                             *)
(***************************************************************************)
C23_ErrorsInWiderTaxonomy ==
    /\ Failed =>
          /\ Last.res.tag \in {"UnsupportedFormat", "ConversionFailed", "IoError",
                               "InvalidPath", "SerializationError"}
          /\ Last.res.tag = "InvalidPath" =>
                /\ ConverterCall("COLMAP", {"NeRF", "OpenCV"})
                /\ Last.res.path \in {CamerasFileOfLast, ImagesFileOfLast}
                /\ ~exists(pre, Last.res.path)
          /\ Last.res.tag = "SerializationError" =>
                ConverterCall("NeRF", {"COLMAP"}) /\ MalformedNerf
    /\ ConverterCall("COLMAP", {"NeRF", "OpenCV"}) =>
          /\ ~exists(pre, CamerasFileOfLast) => Last.res = InvalidPath(CamerasFileOfLast)
          /\ Last.res = Ok => exists(pre, ImagesFileOfLast)
    /\ (ConverterCall("NeRF", {"COLMAP"}) /\ MalformedNerf) =>
          Last.res = SerializationError
    /\ (/\ ConverterCall("COLMAP", {"NeRF"})
        /\ exists(pre, CamerasFileOfLast)
        /\ pre[CamerasFileOfLast].kind = "text"
        /\ CameraRows(pre[CamerasFileOfLast].lines) = <<>>
        /\ exists(pre, ImagesFileOfLast)) =>
          Last.res = ConversionFailed("COLMAP", "NeRF")

C23_Witness ==
    /\ ConverterCall("COLMAP", {"NeRF"})
    /\ Last.input = "sparse"
    /\ pre["sparse/cameras.txt"] = TextFile(SampleCameras)
    /\ pre["sparse/images.txt"] = NoFile
    /\ Last.res = InvalidPath("sparse/images.txt")
    /\ fs = pre


(***************************************************************************)
(* Specification SpecSteps: two conversions run at the same time, each     *)
(* taken one file operation at a time (an open, the read of one line, a    *)
(* create, one writeln), in every interleaving.  A call is started on      *)
(* DataManager::convert_file (each thread has its own DataManager:         *)
(* convert_file takes &mut self) or on PointCloudConverter::convert.       *)
(* hist[p] is the call of thread p: its arguments, its position (pc), its  *)
(* local variables, and the file operations it has done (log).  pre is the *)
(* file system the calls were started on.                                  *)
(***************************************************************************)
Running == [tag |-> "Running"]

ImplementedPairs ==
    {<<"PLY", "XYZ">>, <<"XYZ", "PLY">>, <<"PLY", "PCD">>, <<"PCD", "PLY">>,
     <<"XYZ", "PCD">>, <<"PCD", "XYZ">>}

\* ply_to_pcd and pcd_to_ply collect the rows in `vertices` and write them
\* after the loop; the other four write each row as it is read
CollectsRows(c) == <<c.from.kind, c.to.kind>> \in {<<"PLY", "PCD">>, <<"PCD", "PLY">>}

ReadEv(path, i) == <<"read", path, i>>
WriteEv(path, line) == <<"write", path, line>>

\* A hole left in a file by a write beyond its end
Hole == <<"<hole>">>

\* writeln! through a handle that has written `pos` lines
write_at(lines, pos, line) ==
    IF pos < Len(lines) THEN [lines EXCEPT ![pos + 1] = line]
    ELSE lines \o [k \in 1..(pos - Len(lines)) |-> Hole] \o <<line>>

\* Mutant of count_pass: the count is kept in the conversion cache, whatever
\* the input it was taken of
count_pass_cached(f, c) ==
    IF ReadsFailForever(f[c.input])
    THEN [f |-> f, c |-> [c EXCEPT !.count = Min(@ + 1, MaxCount)]]
    ELSE IF c.i > Len(LinesOf(f[c.input]))
    THEN IF f["cache"].kind = "json"
         THEN [f |-> f, c |-> [c EXCEPT !.pc = "reopen", !.count = f["cache"].value]]
         ELSE [f |-> [f EXCEPT !["cache"] = JsonFile(c.count)],
               c |-> [c EXCEPT !.pc = "reopen"]]
    ELSE [f |-> f, c |-> [c EXCEPT !.count = @ + 1, !.i = @ + 1,
                                   !.log = Append(@, ReadEv(c.input, c.i))]]

\* One item of reader.lines().count(), the first pass of xyz_to_ply and
\* xyz_to_pcd: every item is counted, an error included, and the iterator over
\* a directory yields an error each time it is asked
\* count_pass that stops after the first line
count_pass_first_line(f, c) ==
    IF ReadsFailForever(f[c.input])
    THEN [f |-> f, c |-> [c EXCEPT !.count = Min(@ + 1, MaxCount)]]
    ELSE IF c.i > Min(1, Len(LinesOf(f[c.input])))
    THEN [f |-> f, c |-> [c EXCEPT !.pc = "reopen"]]
    ELSE [f |-> f, c |-> [c EXCEPT !.count = @ + 1, !.i = @ + 1,
                                   !.log = Append(@, ReadEv(c.input, c.i))]]

count_pass(f, c) ==
    IF ReadsFailForever(f[c.input])
    THEN [f |-> f, c |-> [c EXCEPT !.count = Min(@ + 1, MaxCount)]]
    ELSE IF c.i > Len(LinesOf(f[c.input]))
    THEN [f |-> f, c |-> [c EXCEPT !.pc = "reopen"]]
    ELSE [f |-> f, c |-> [c EXCEPT !.count = @ + 1, !.i = @ + 1,
                                   !.log = Append(@, ReadEv(c.input, c.i))]]

\* The next file operation of call c on the file system f
call_step(f, c) ==
    LET dm == c.via = "DataManager"
        stay(c2) == [f |-> f, c |-> c2]
        done(res, log) ==
            [f |-> f, c |-> [c EXCEPT !.pc = "done", !.res = res, !.log = @ \o log]]
        unhandled(i, o) ==
            CASE ~dm -> pc_convert(f, c.input, c.output, i, o)
              [] dm /\ i.cat = "PointCloud" /\ o.cat = "PointCloud" ->
                    dm_convert_point_cloud(f, c.input, c.output, i.kind, o.kind)
              [] dm /\ i.cat = "CameraParameters" /\ o.cat = "CameraParameters" ->
                    dm_convert_camera_params(f, c.input, c.output, i.kind, o.kind)
              [] OTHER -> Outcome(ConversionFailed(DebugFormat(i), DebugFormat(o)),
                                  f, <<>>)
        routed(i, o, log) ==
            IF /\ i.cat = "PointCloud" /\ o.cat = "PointCloud"
               /\ <<i.kind, o.kind>> \in ImplementedPairs
            THEN stay([c EXCEPT !.from = i, !.to = o, !.pc = "open", !.log = @ \o log])
            ELSE done(unhandled(i, o).res, log)
        resolve(input_fmt, output_fmt) ==
            IF ~input_fmt.ok THEN done(input_fmt.err, input_fmt.log)
            ELSE IF ~output_fmt.ok THEN done(output_fmt.err, input_fmt.log)
            ELSE routed(input_fmt.fmt, output_fmt.fmt, input_fmt.log)
        header(n) ==
            CASE c.to.kind = "PLY" /\ dm -> dm_PlyHeader(n)
              [] c.to.kind = "PLY" /\ ~dm -> PlyHeader(n)
              [] c.to.kind = "PCD" /\ dm -> dm_PcdHeader(n)
              [] OTHER -> PcdHeader(n)
        scan_start ==
            CASE c.from.kind = "PLY" -> IF dm THEN dm_PlyScanStart ELSE PlyScanStart
              [] c.from.kind = "PCD" -> IF dm THEN dm_PcdScanStart ELSE PcdScanStart
              [] OTHER -> [rows |-> <<>>, err |-> FALSE]
        emit == IF c.to.kind = "XYZ" THEN "xyz" ELSE "raw"
        scan_line(line) ==
            CASE c.from.kind = "PLY" /\ dm -> dm_ply_scan(<<line>>, 1, c.st, emit)
              [] c.from.kind = "PLY" /\ ~dm -> ply_scan(<<line>>, 1, c.st, emit)
              [] c.from.kind = "PCD" /\ dm ->
                    dm_pcd_scan(<<line>>, 1, c.st, c.to.kind = "PLY")
              [] c.from.kind = "PCD" /\ ~dm ->
                    pcd_scan(<<line>>, 1, c.st, c.to.kind = "PLY")
              [] c.from.kind = "XYZ" /\ dm -> dm_copy_rows(<<line>>, 1, c.st)
              [] OTHER -> copy_rows(<<line>>, 1, c.st)
        scanned(st) ==
            stay([c EXCEPT !.st = st, !.i = @ + 1,
                           !.pending = IF CollectsRows(c) THEN <<>>
                                       ELSE SubSeq(st.rows, Len(c.st.rows) + 1,
                                                   Len(st.rows)),
                           !.log = Append(@, ReadEv(c.input, c.i))])
    IN  CASE c.pc = "start" ->
                IF dm
                THEN resolve(IF c.input_format.some
                             THEN dm_parse_format(c.input_format.value)
                             ELSE dm_detect_format(f, c.input),
                             dm_parse_format(c.output_format))
                ELSE routed(c.from, c.to, <<>>)
          [] c.pc = "open" ->
                IF ~CanOpen(f, c.input) THEN done(IoError, <<>>)
                ELSE stay([c EXCEPT !.pc = IF c.from.kind = "XYZ" THEN "count"
                                           ELSE "create",
                                    !.i = 1, !.log = Append(@, OpenEv(c.input))])
          [] c.pc = "count" -> count_pass(f, c)
          [] c.pc = "reopen" ->
                IF ~CanOpen(f, c.input) THEN done(IoError, <<>>)
                ELSE stay([c EXCEPT !.pc = "create", !.i = 1,
                                    !.log = Append(@, OpenEv(c.input))])
          [] c.pc = "create" ->
                IF ~CanCreate(f, c.output) THEN done(IoError, <<>>)
                ELSE [f |-> Created(f, c.output),
                      c |-> [c EXCEPT !.pc = "run", !.pos = 0, !.st = scan_start,
                                      !.pending = IF c.from.kind = "XYZ"
                                                  THEN header(c.count) ELSE <<>>,
                                      !.log = Append(@, CreateEv(c.output))]]
          [] c.pc = "run" /\ c.pending # <<>> ->
                [f |-> [f EXCEPT ![c.output] =
                           TextFile(write_at(f[c.output].lines, c.pos, Head(c.pending)))],
                 c |-> [c EXCEPT !.pending = Tail(@), !.pos = @ + 1,
                                 !.log = Append(@, WriteEv(c.output, Head(c.pending)))]]
          [] c.pc = "run" /\ c.pending = <<>> /\ c.st.err -> done(IoError, <<>>)
          [] c.pc = "run" /\ c.pending = <<>> /\ ~c.st.err /\ c.eof ->
                IF CollectsRows(c) /\ ~c.flushed
                THEN stay([c EXCEPT !.pending = header(Len(c.st.rows)) \o c.st.rows,
                                    !.flushed = TRUE])
                ELSE done(Ok, <<>>)
          [] OTHER ->
                IF ReadsFailForever(f[c.input])
                THEN stay([c EXCEPT !.st.err = TRUE,
                                    !.log = Append(@, ReadEv(c.input, c.i))])
                ELSE IF c.i > Len(LinesOf(f[c.input])) THEN stay([c EXCEPT !.eof = TRUE])
                ELSE scanned(scan_line(LinesOf(f[c.input])[c.i]))

Unresolved_ == [cat |-> "", kind |-> ""]

\* DataManager::convert_file(input, output, input_format, output_format)
ViaDataManager(input, output, input_format, output_format) ==
    [via |-> "DataManager", input |-> input, output |-> output,
     input_format |-> input_format, output_format |-> output_format,
     from |-> Unresolved_, to |-> Unresolved_]

\* PointCloudConverter::convert(input, output, from, to)
ViaConverter(input, output, from, to) ==
    [via |-> "PointCloudConverter", input |-> input, output |-> output,
     input_format |-> None, output_format |-> <<>>, from |-> from, to |-> to]

NewCall(r) ==
    [via |-> r.via, input |-> r.input, output |-> r.output,
     input_format |-> r.input_format, output_format |-> r.output_format,
     from |-> r.from, to |-> r.to,
     pc |-> "start", res |-> Running, st |-> [rows |-> <<>>, err |-> FALSE],
     i |-> 1, count |-> 0, pos |-> 0, pending |-> <<>>, flushed |-> FALSE,
     eof |-> FALSE, log |-> <<>>, overlapped |-> FALSE]

Requests ==
    {ViaDataManager("cloud.ply", "out", None, <<"x", "y", "z">>),
     ViaConverter("cloud.ply", "out2", PointCloud("PLY"), PointCloud("PCD")),
     ViaConverter("cloud.pcd", "out2", PointCloud("PCD"), PointCloud("PLY")),
     ViaDataManager("cloud.pcd", "out", Some(<<"P", "C", "D">>), <<"x", "y", "z">>),
     ViaConverter("cloud.xyz", "out", PointCloud("XYZ"), PointCloud("PLY")),
     ViaDataManager("scan.txt", "out2", None, <<"p", "c", "d">>),
     ViaConverter("tile.laz", "out", PointCloud("XYZ"), PointCloud("PCD")),
     ViaConverter("scans", "out2", PointCloud("XYZ"), PointCloud("PLY")),
     ViaConverter("scans", "out", PointCloud("PLY"), PointCloud("XYZ")),
     ViaDataManager("out", "out2", Some(<<"x", "y", "z">>), <<"p", "l", "y">>),
     ViaConverter("mesh.obj", "out", PointCloud("PLY"), PointCloud("XYZ")),
     ViaDataManager("cloud.ply", "out", None, <<"l", "a", "z">>),
     ViaDataManager("mesh.obj", "out", None, <<"p", "l", "y">>),
     ViaConverter("cloud.ply", "out", PointCloud("PLY"), CameraParameters("NeRF"))}

StepPaths ==
    {"cloud.ply", "cloud.pcd", "cloud.xyz", "scan.txt", "tile.laz", "scans",
     "mesh.obj", "out", "out2", "cache"}

StepsInit ==
    /\ \E out \in {NoFile, TextFile(<<Row2, Row3>>)} :
          fs = [p \in StepPaths |->
                  CASE p = "cloud.ply" -> TextFile(SamplePly)
                    [] p = "cloud.pcd" -> TextFile(SamplePcd)
                    [] p = "cloud.xyz" -> TextFile(SampleXyz)
                    [] p = "scan.txt" -> TextFile(<<Row3, Row4>>)
                    [] p = "tile.laz" -> TextFile(<<Row3, <<InvalidUtf8>>, Row4>>)
                    [] p \in {"scans", "cache"} -> Directory
                    [] p = "out" -> out
                    [] OTHER -> NoFile]
    /\ pre = fs
    /\ \E r1 \in Requests, r2 \in Requests : hist = <<NewCall(r1), NewCall(r2)>>

InFlight(c) == c.pc \notin {"start", "done"}

\* Thread p does the next file operation of its call
Step(p) ==
    /\ hist[p].pc # "done"
    /\ LET advance(r) ==
               /\ fs' = r.f
               /\ hist' = [hist EXCEPT ![p] =
                             [r.c EXCEPT !.overlapped =
                                 @ \/ \E q \in DOMAIN hist \ {p} : InFlight(hist[q])]]
       IN  advance(call_step(fs, hist[p]))
    /\ pre' = pre

StepsNext == \E p \in DOMAIN hist : Step(p)

SpecSteps == StepsInit /\ [][StepsNext]_vars


(***************************************************************************)
(* C24.  Conversions share no mutable state: in every interleaving of the  *)
(* file operations of two calls whose output paths are distinct and whose  *)
(* input files are not written during the calls (no input is an output),   *)
(* each call returns the result, and leaves at its output path the file,   *)
(* that it returns and leaves when it runs alone on the same file system.  *)
(***************************************************************************)
BothDone == hist[1].pc = "done" /\ hist[2].pc = "done"

Independent ==
    /\ hist[1].output # hist[2].output
    /\ \A p, q \in {1, 2} : hist[p].input # hist[q].output

\* The call run alone, from start to end, on the file system pre
Alone(c) ==
    IF c.via = "DataManager"
    THEN convert_file(pre, c.input, c.output, c.input_format, c.output_format).out
    ELSE pc_convert(pre, c.input, c.output, c.from, c.to)

C24_CallsDoNotInterfere ==
    (BothDone /\ Independent) =>
        \A p \in {1, 2} :
            /\ hist[p].res = Alone(hist[p]).res
            /\ fs[hist[p].output] = Alone(hist[p]).fs[hist[p].output]

C24_Witness ==
    /\ BothDone
    /\ Independent
    /\ hist[1].overlapped /\ hist[2].overlapped
    /\ hist[1].via = "PointCloudConverter" /\ hist[1].input = "cloud.xyz"
    /\ hist[2].via = "DataManager" /\ hist[2].input = "scan.txt"
    /\ hist[1].res = Ok /\ hist[2].res = Ok
    /\ fs["out"] = TextFile(PlyHeader(3) \o <<Row3, Row4>>)
    /\ fs["out2"] = TextFile(dm_PcdHeader(2) \o <<Row3, Row4>>)


\* The calls that convert an XYZ input and have been routed to their routine
FromXyz(c) == c.pc # "start" /\ c.from = PointCloud("XYZ") /\ c.to.kind \in {"PLY", "PCD"}

IsCreate(e) == e[1] = "create"
IsWrite(e) == e[1] = "write"
IsRead(e) == e[1] = "read"

\* Position of the creation of the output in the call's file events (0: not yet)
CreatedAt(c) ==
    IF \E k \in DOMAIN c.log : IsCreate(c.log[k])
    THEN CHOOSE k \in DOMAIN c.log : IsCreate(c.log[k])
    ELSE 0

\* The lines the call has written so far, in the order of the writes
LinesWritten(c) ==
    LET writes == SelectSeq(c.log, IsWrite)
    IN  [k \in DOMAIN writes |-> writes[k][3]]

\* The header the routine writes for the count n, and its line that declares n
HeaderFor(c, n) ==
    CASE c.to.kind = "PLY" /\ c.via = "DataManager" -> dm_PlyHeader(n)
      [] c.to.kind = "PLY" -> PlyHeader(n)
      [] c.to.kind = "PCD" /\ c.via = "DataManager" -> dm_PcdHeader(n)
      [] OTHER -> PcdHeader(n)

CountLine(c, n) == IF c.to.kind = "PLY" THEN ElementVertex(n) ELSE Points(n)

\* The file events of a whole counting pass over n items: open, n reads, open
CountingPass(c, n) ==
    <<OpenEv(c.input)>> \o [k \in 1..n |-> ReadEv(c.input, k)] \o <<OpenEv(c.input)>>

(***************************************************************************)
(* C26.  In XYZ->PLY and XYZ->PCD the counting pass over the input is      *)
(* complete before the output file is created (every line of an input     *)
(* that no call writes has been counted, and until then the call has       *)
(* neither created nor written anything), and the whole header, the line   *)
(* that declares the count included, is written before the first data row  *)
(* is read and written: no line is written ahead of the header.            *)
(***************************************************************************)
C26_CountThenHeaderThenRows ==
    \A p \in DOMAIN hist :
        FromXyz(hist[p]) =>
            LET ordered(c, at, header) ==
                    /\ (c.pc \in {"open", "count", "reopen"}) =>
                            at = 0 /\ LinesWritten(c) = <<>>
                    /\ at = 0 => LinesWritten(c) = <<>>
                    /\ at > 0 =>
                          /\ at > c.count + 2
                          /\ SubSeq(c.log, at - c.count - 2, at - 1)
                                = CountingPass(c, c.count)
                          /\ (\A q \in DOMAIN hist : hist[q].output # c.input) =>
                                c.count = Len(LinesOf(pre[c.input]))
                          /\ \A k \in DOMAIN c.log :
                                (IsWrite(c.log[k]) \/ IsRead(c.log[k])) /\ k > at =>
                                    LET before == Len(SelectSeq(SubSeq(c.log, 1, k - 1),
                                                                IsWrite))
                                    IN  IF before < Len(header)
                                        THEN /\ IsWrite(c.log[k])
                                             /\ c.log[k][3] = header[before + 1]
                                        ELSE TRUE
                          /\ \A k \in DOMAIN c.log : IsWrite(c.log[k]) => k > at
                          /\ \E k \in DOMAIN header : header[k] = CountLine(c, c.count)
            IN  ordered(hist[p], CreatedAt(hist[p]), HeaderFor(hist[p], hist[p].count))

\* XYZ->PLY of cloud.xyz has counted three lines, written the header for three
\* and then the two rows, while the other call was running
C26_Witness ==
    /\ FromXyz(hist[1])
    /\ hist[1].input = "cloud.xyz" /\ hist[1].to.kind = "PLY"
    /\ hist[1].pc = "done" /\ hist[1].res = Ok /\ hist[1].overlapped
    /\ hist[1].count = 3
    /\ LinesWritten(hist[1]) = PlyHeader(3) \o <<Row3, Row4>>
    /\ CreatedAt(hist[1]) = 6

(***************************************************************************)
(* Specification SpecScan: one conversion of a header-bearing input, taken *)
(* one line at a time, over every input of up to MaxLines lines made of    *)
(* header lines, marker lines, lines that nearly are the marker, and rows. *)
(***************************************************************************)
EndHeaderPadded == <<"end_header", " ">>
DataBinary == <<"DATA", " ", "binary">>

ScanLines(kind) ==
    IF kind = "PLY" THEN {ElementVertex(2), EndHeader, EndHeaderPadded, Row3, Row4}
    ELSE {DataAscii, DataBinary, Points(1), Row3, Blank}

ScanRequests(kind) ==
    IF kind = "PLY"
    THEN {ViaConverter("cloud.ply", "out", PointCloud("PLY"), PointCloud("XYZ")),
          ViaConverter("cloud.ply", "out", PointCloud("PLY"), PointCloud("PCD")),
          ViaDataManager("cloud.ply", "out", Some(<<"p", "l", "y">>), <<"x", "y", "z">>),
          ViaDataManager("cloud.ply", "out", None, <<"p", "c", "d">>)}
    ELSE {ViaConverter("cloud.pcd", "out", PointCloud("PCD"), PointCloud("PLY")),
          ViaConverter("cloud.pcd", "out", PointCloud("PCD"), PointCloud("XYZ")),
          ViaDataManager("cloud.pcd", "out", None, <<"p", "l", "y">>),
          ViaDataManager("cloud.pcd", "out", Some(<<"p", "c", "d">>), <<"x", "y", "z">>)}

ScanInit ==
    /\ \E kind \in {"PLY", "PCD"} :
         /\ \E content \in FilesOver(ScanLines(kind), MaxLines) :
               fs = [p \in StepPaths |->
                       CASE p = "cloud.ply" /\ kind = "PLY" -> TextFile(content)
                         [] p = "cloud.pcd" /\ kind = "PCD" -> TextFile(content)
                         [] p = "cache" -> Directory
                         [] OTHER -> NoFile]
         /\ \E r \in ScanRequests(kind) : hist = <<NewCall(r)>>
    /\ pre = fs

SpecScan == ScanInit /\ [][StepsNext]_vars

\* The calls that are scanning, or have scanned, a header-bearing input
Scanning(c) ==
    /\ c.pc \in {"run", "done"}
    /\ c.from.kind \in {"PLY", "PCD"} /\ c.to.kind \in PointCloudKinds
    /\ c.res \in {Running, Ok}

MarkerOf(c) == IF c.from.kind = "PLY" THEN EndHeader ELSE DataAscii

InDataState(c) == IF c.from.kind = "PLY" THEN c.st.in_vertex_data ELSE c.st.in_data

\* The lines the scanner has been through
ReadSoFar(c) == SubSeq(LinesOf(pre[c.input]), 1, c.i - 1)

\* What the lines after the marker can be emitted as
RowsAfter(c, lines, m) ==
    {IF c.from.kind = "PLY" /\ c.to.kind = "XYZ" /\ HasThreeTokens(lines[k])
     THEN FirstThreeTokens(lines[k]) ELSE lines[k] : k \in (m + 1)..Len(lines)}

(***************************************************************************)
(* C27.  In PLY->XYZ, PLY->PCD, PCD->PLY and PCD->XYZ the scanner is in    *)
(* the data state exactly when it has been through a line that is the      *)
(* literal marker (`end_header`, resp. `DATA ascii`): it enters the state  *)
(* at no other line and never leaves it.  Every row taken or written comes *)
(* from a line after the first marker line, and an input that lacks the    *)
(* marker yields an output with zero data rows.                            *)
(***************************************************************************)
C27_DataOnlyAfterMarker ==
    \A p \in DOMAIN hist :
        Scanning(hist[p]) =>
            LET holds(c, lines, m, header) ==
                    /\ InDataState(c) = (m > 0)
                    /\ m = 0 => c.st.rows = <<>>
                    /\ \A k \in DOMAIN c.st.rows :
                            m > 0 /\ c.st.rows[k] \in RowsAfter(c, lines, m)
                    /\ \A k \in DOMAIN LinesWritten(c) :
                            \/ LinesWritten(c)[k] \in {header[j] : j \in DOMAIN header}
                            \/ m > 0 /\ LinesWritten(c)[k] \in RowsAfter(c, lines, m)
                    /\ (c.pc = "done" /\ m = 0) =>
                            fs[c.output] = TextFile(IF CollectsRows(c) THEN header
                                                    ELSE <<>>)
                    /\ (c.pc = "done" /\ m = 0 /\ CollectsRows(c)) =>
                            header = HeaderFor(c, 0)
            IN  holds(hist[p], ReadSoFar(hist[p]),
                      FirstIndex(ReadSoFar(hist[p]), MarkerOf(hist[p])),
                      HeaderFor(hist[p], Len(hist[p].st.rows)))

\* PCD->XYZ of `DATA binary`, row, `DATA ascii`, row: only the last row is out
C27_Witness ==
    /\ hist[1].pc = "done" /\ hist[1].res = Ok
    /\ hist[1].from = PointCloud("PCD") /\ hist[1].to = PointCloud("XYZ")
    /\ LinesOf(pre["cloud.pcd"]) = <<DataBinary, Row3, DataAscii, Row3>>
    /\ fs["out"] = TextFile(<<Row3>>)
    /\ InDataState(hist[1])

(***************************************************************************)
(* Specification SpecMissing: one call of a conversion that reads its      *)
(* input, on a file system where the input, cameras.txt, images.txt or the *)
(* output may be missing and the NeRF input may not be JSON.               *)
(***************************************************************************)
MissingInit ==
    /\ \E clouds \in BOOLEAN,
          cameras \in {TextFile(SampleCameras), NoFile},
          images \in {TextFile(SampleImages), NoFile},
          transforms \in {JsonFile(SampleNerf), TextFile(<< <<"{">> >>), NoFile},
          out \in {NoFile, TextFile(<<Row2>>), Directory},
          old \in {NoFile, TextFile(<<Row2>>)} :
          fs = [p \in SpecPaths |->
                  CASE p = "cloud.ply" /\ clouds -> TextFile(SamplePly)
                    [] p = "cloud.pcd" /\ clouds -> TextFile(SamplePcd)
                    [] p = "cloud.xyz" /\ clouds -> TextFile(SampleXyz)
                    [] p = "transforms.json" -> transforms
                    [] p = "sparse" -> Directory
                    [] p = "sparse/cameras.txt" -> cameras
                    [] p = "sparse/images.txt" -> images
                    [] p = "out" -> out
                    [] p \in {"out/cameras.txt", "out/images.txt"}
                         /\ out = Directory -> old
                    [] OTHER -> NoFile]
    /\ pre = fs
    /\ hist = <<>>

\* <PointCloudConverter as FormatConverter>::convert(input, output, from, to)
PointCloudConvert(input_path, output_path, from, to) ==
    /\ hist = <<>>
    /\ LET out == pc_convert(fs, input_path, output_path, from, to)
       IN  /\ fs' = out.fs
           /\ pre' = fs
           /\ hist' = <<Call("PointCloudConverter::convert",
                             input_path, output_path, from, to, out)>>

CloudFile(kind) ==
    CASE kind = "PLY" -> "cloud.ply"
      [] kind = "PCD" -> "cloud.pcd"
      [] kind = "LAZ" -> "tile.laz"
      [] OTHER -> "cloud.xyz"

CloudToken(kind) ==
    CASE kind = "PLY" -> <<"p", "l", "y">>
      [] kind = "PCD" -> <<"p", "c", "d">>
      [] kind = "LAZ" -> <<"l", "a", "z">>
      [] OTHER -> <<"x", "y", "z">>

ReadingCameraPairs ==
    {<<"COLMAP", "NeRF">>, <<"COLMAP", "OpenCV">>, <<"NeRF", "COLMAP">>}

MissingNext ==
    \/ \E pair \in ImplementedPairs :
          PointCloudConvert(CloudFile(pair[1]), "out",
                            PointCloud(pair[1]), PointCloud(pair[2]))
    \/ \E pair \in ImplementedPairs :
          ConvertFile(CloudFile(pair[1]), "out",
                      Some(CloudToken(pair[1])), CloudToken(pair[2]))
    \/ \E pair \in ReadingCameraPairs :
          CameraConvert(IF pair[1] = "COLMAP" THEN "sparse" ELSE "transforms.json",
                        "out", CameraParameters(pair[1]), CameraParameters(pair[2]))

SpecMissing == MissingInit /\ [][MissingNext]_vars

\* The call made is a COLMAP-reading, resp. the NeRF-reading, conversion
FromColmap == ConverterCall("COLMAP", {"NeRF", "OpenCV"})
FromNerf == ConverterCall("NeRF", {"COLMAP"})

\* The files the conversion reads
InputsOfLast ==
    IF FromColmap THEN {CamerasFileOfLast, ImagesFileOfLast} ELSE {Last.input}

FirstCreate(log) ==
    IF \E k \in DOMAIN log : IsCreate(log[k])
    THEN CHOOSE k \in DOMAIN log :
            IsCreate(log[k]) /\ \A j \in 1..(k - 1) : ~IsCreate(log[j])
    ELSE 0

(***************************************************************************)
(* C28.  In the six point-cloud conversions (of PointCloudConverter and of *)
(* DataManager) and in CameraParamsConverter's COLMAP->NeRF, COLMAP->      *)
(* OpenCV and NeRF->COLMAP, every input file is opened before any output   *)
(* file is created, and for the camera formats the input is read and       *)
(* parsed before: when the input file, cameras.txt or images.txt is        *)
(* missing, or the NeRF input is not the JSON of a pose file, or COLMAP->   *)
(* NeRF finds no camera, the call returns an error and has created or      *)
(* truncated no file.                                                      *)
(***************************************************************************)
C28_InputBeforeOutput ==
    hist # <<>> =>
        LET ordered(log, at) ==
                /\ at > 0 =>
                      /\ \A path \in InputsOfLast :
                            \E j \in 1..(at - 1) : log[j] = OpenEv(path)
                      /\ \A path \in InputsOfLast : exists(pre, path)
                      /\ FromNerf => ~MalformedNerf
                /\ at = 0 => fs = pre
                /\ (\E path \in InputsOfLast : ~exists(pre, path)) =>
                      /\ at = 0
                      /\ Last.res \notin {Ok, NoReturn}
                /\ (FromNerf /\ MalformedNerf) =>
                      at = 0 /\ Last.res = SerializationError
                /\ (FromColmap \/ FromNerf) =>
                      (Last.res.tag \in {"InvalidPath", "SerializationError",
                                         "ConversionFailed"} => at = 0)
        IN  ordered(Last.log, FirstCreate(Last.log))

\* COLMAP->OpenCV with cameras.txt present and images.txt missing returns
\* InvalidPath and leaves the existing output file as it was
C28_Witness ==
    /\ ConverterCall("COLMAP", {"OpenCV"})
    /\ exists(pre, CamerasFileOfLast) /\ ~exists(pre, ImagesFileOfLast)
    /\ Last.res = InvalidPath(ImagesFileOfLast)
    /\ pre["out"] = TextFile(<<Row2>>)
    /\ fs = pre

(***************************************************************************)
(* Specification SpecImages: NeRF->COLMAP into a directory, then           *)
(* read_colmap_images on that directory.  The frames' file_path values are *)
(* JSON strings: plain names, a name with a space in it, the empty string. *)
(***************************************************************************)
SpacedName == <<"my", " ", "view.png">>

ImageFrames ==
    {[file_path |-> name, rotation |-> F(0),
      transform_matrix |-> MatrixOf(<<F(1), F(0), F(0), F(0)>>, <<F(1), F(2), F(-3)>>)] :
        name \in {Token("a.png"), Token("b.png"), SpacedName, <<>>}}

ImagesInit ==
    /\ \E frames \in FilesOver(ImageFrames, MaxFrames) :
          fs = [p \in NerfPaths |->
                  CASE p = "transforms.json" ->
                          JsonFile([camera_angle_x |-> Rat(3, 5), frames |-> frames])
                    [] p = "out" -> Directory
                    [] OTHER -> NoFile]
    /\ pre = fs
    /\ hist = <<>>

\* read_colmap_images(out), on what the conversion wrote
ReadImagesBack ==
    /\ Len(hist) = 1
    /\ hist[1].res = Ok
    /\ hist' = Append(hist, [op |-> "read_colmap_images",
                             images |-> read_colmap_images(fs, "out")])
    /\ pre' = fs
    /\ fs' = fs

ImagesNext == NerfToColmap \/ ReadImagesBack

SpecImages == ImagesInit /\ [][ImagesNext]_vars

ReadBack == Len(hist) = 2 /\ hist[2].op = "read_colmap_images"

\* The records write_colmap_images was given
ImagesWritten == convert_nerf_to_colmap_data(fs["transforms.json"].value).images

(***************************************************************************)
(* C29.  read_colmap_images on an images.txt written by                    *)
(* write_colmap_images returns as many image records as were written, in   *)
(* the same order, each with the image_id, camera_id and name written, for *)
(* every list of images (every file_path of the frames of a NeRF input);   *)
(* comment lines and blank continuation lines yield no record.             *)
(***************************************************************************)
C29_ReadBackSameRecords ==
    ReadBack =>
        LET same(written, read) ==
                /\ read.res = Ok
                /\ Len(read.value) = Len(written)
                /\ \A k \in 1..Len(written) :
                        k <= Len(read.value) =>
                            /\ read.value[k].image_id = written[k].image_id
                            /\ read.value[k].camera_id = written[k].camera_id
                            /\ read.value[k].name = written[k].name
        IN  same(ImagesWritten, hist[2].images)

(***************************************************************************)
(* Specification SpecAgree: one call of either implementation (the         *)
(* routines of DataManager, reached through convert_file, parse_format and *)
(* detect_format; PointCloudConverter::convert and the functions of        *)
(* formats) on every input of up to MaxLines lines.                        *)
(***************************************************************************)
Unreadable == <<InvalidUtf8>>

AgreeLines(kind) ==
    CASE kind = "PLY" -> {ElementVertex(2), EndHeader, Row3, Row4, Blank, Unreadable}
      [] kind = "PCD" -> {Points(1), DataAscii, Row3, Blank, Unreadable}
      [] kind = "XYZ" -> {Row3, Row4, Blank, Spaces, Unreadable}
      [] OTHER -> {CameraListLine, NearMarker, Row3, Unreadable}

AgreeFile(kind) == IF kind = "TXT" THEN "scan.txt" ELSE CloudFile(kind)

AgreePaths == {"cloud.ply", "cloud.pcd", "cloud.xyz", "tile.laz", "scan.txt", "out"}

AgreeKinds == {"PLY", "PCD", "XYZ", "LAZ"}

AgreeTokens == {<<"p", "l", "y">>, <<"P", "c", "D">>, <<"o", "b", "j">>}

AgreeInit ==
    /\ \E kind \in AgreeKinds \cup {"TXT"} :
         \E content \in FilesOver(AgreeLines(kind), MaxLines) :
            fs = [p \in AgreePaths |->
                    IF p = AgreeFile(kind) THEN TextFile(content) ELSE NoFile]
    /\ pre = fs
    /\ hist = <<>>

\* The file the call is about is the one that is there
Present(path) == exists(fs, path)

AgreeNext ==
    \/ \E from \in AgreeKinds, to \in AgreeKinds :
          /\ Present(CloudFile(from))
          /\ PointCloudConvert(CloudFile(from), "out", PointCloud(from), PointCloud(to))
    \/ \E from \in AgreeKinds, to \in AgreeKinds :
          /\ Present(CloudFile(from))
          /\ ConvertFile(CloudFile(from), "out", Some(CloudToken(from)), CloudToken(to))
    \/ \E to \in AgreeKinds :
          /\ Present("scan.txt")
          /\ \/ ConvertFile("scan.txt", "out", None, CloudToken(to))
             \/ PointCloudConvert("scan.txt", "out", PointCloud("XYZ"), PointCloud(to))
    \/ \E path \in AgreePaths : Present(path) /\ DetectFormat(path)
    \/ \E path \in AgreePaths : Present(path) /\ DmDetectFormat(path)
    \/ \E format_str \in AgreeTokens : ParseFormat(format_str)
    \/ \E format_str \in AgreeTokens : DmParseFormat(format_str)

SpecAgree == AgreeInit /\ [][AgreeNext]_vars

\* What a call of detect_format or parse_format returned
Returned(d) == [res |-> IF d.ok THEN Ok ELSE d.err,
                resolved |-> IF d.ok THEN <<d.fmt>> ELSE <<>>]

ReturnedByLast == [res |-> Last.res, resolved |-> Last.resolved]

(***************************************************************************)
(* C30.  The two point-cloud implementations agree.  For every pair of     *)
(* point-cloud kinds and every input, a conversion through convert_file    *)
(* returns what PointCloudConverter::convert returns on the same files and *)
(* leaves every file, the output included, with the same content, and the  *)
(* other way round; DataManager's parse_format and detect_format return    *)
(* what formats::parse_format and formats::detect_format return.           *)
(***************************************************************************)
C30_ImplementationsAgree ==
    hist # <<>> =>
        LET agrees(other) == Last.res = other.res /\ fs = other.fs
            same(d) == ReturnedByLast = Returned(d)
        IN  CASE Last.op = "convert_file" ->
                    (/\ Len(Last.resolved) = 2
                     /\ Last.resolved[1].cat = "PointCloud"
                     /\ Last.resolved[2].cat = "PointCloud") =>
                        agrees(pc_convert(pre, Last.input, Last.output,
                                          Last.resolved[1], Last.resolved[2]))
              [] Last.op = "PointCloudConverter::convert" ->
                    agrees(convert_file(pre, Last.input, Last.output,
                                        Some(CloudToken(Last.from.kind)),
                                        CloudToken(Last.to.kind)).out)
              [] Last.op = "detect_format" -> same(dm_detect_format(pre, Last.input))
              [] Last.op = "DataManager::detect_format" ->
                    same(detect_format(pre, Last.input))
              [] Last.op = "parse_format" -> same(dm_parse_format(Last.input))
              [] Last.op = "DataManager::parse_format" ->
                    same(parse_format(Last.input))
              [] OTHER -> TRUE

\* convert_file(cloud.pcd -> ply) on a POINTS line, the marker and two rows
\* succeeds and leaves what PointCloudConverter::convert leaves
C30_Witness ==
    /\ hist # <<>> /\ Last.op = "convert_file"
    /\ Last.input = "cloud.pcd"
    /\ Last.resolved = <<PointCloud("PCD"), PointCloud("PLY")>>
    /\ pre["cloud.pcd"] = TextFile(<<Points(1), DataAscii, Row3, Row3>>)
    /\ Last.res = Ok
    /\ fs["out"] = TextFile(PlyHeader(2) \o <<Row3, Row3>>)
    /\ fs = pc_convert(pre, "cloud.pcd", "out", PointCloud("PCD"), PointCloud("PLY")).fs

(***************************************************************************)
(* Specification SpecOneCall: one conversion, taken one file operation at  *)
(* a time, on a thread that is always scheduled again (nothing else keeps  *)
(* a call from its next operation: the calls block on no lock and wait for *)
(* no other thread).                                                       *)
(***************************************************************************)
OneCallInit ==
    /\ \E out \in {NoFile, TextFile(<<Row2, Row3>>)} :
          fs = [p \in StepPaths |->
                  CASE p = "cloud.ply" -> TextFile(SamplePly)
                    [] p = "cloud.pcd" -> TextFile(SamplePcd)
                    [] p = "cloud.xyz" -> TextFile(SampleXyz)
                    [] p = "scan.txt" -> TextFile(<<Row3, Row4>>)
                    [] p = "tile.laz" -> TextFile(<<Row3, <<InvalidUtf8>>, Row4>>)
                    [] p \in {"scans", "cache"} -> Directory
                    [] p = "out" -> out
                    [] OTHER -> NoFile]
    /\ pre = fs
    /\ \E r \in Requests : hist = <<NewCall(r)>>

SpecOneCall == OneCallInit /\ [][StepsNext]_vars /\ WF_vars(Step(1))

(***************************************************************************)
(* C25.  Once started, every conversion terminates: the call eventually    *)
(* returns Ok or an error, also when a read of the input fails (a line     *)
(* that is not UTF-8, an input that is a directory, whose every read       *)
(* fails): the failed read ends the call with that error and is not        *)
(* retried, skipped or looped on.                                          *)
(***************************************************************************)
C25_EveryCallReturns == <>(hist[1].pc = "done")

====
